---------------------------- MODULE Spec2Model ----------------------------
(***************************************************************************)
(* Model of the Polymarket ingestion pipeline: the relational storage      *)
(* backend (src/storage/postgres.py), the ingestion engine                 *)
(* (src/core/ingestion.py), the rate-limited retrying client               *)
(* (src/connectors/polymarket/client.py) and the command-line interface    *)
(* (cli/commands.py).                                                      *)
(*                                                                         *)
(* Python's None is the integer 0 (timestamps, cursors and return values   *)
(* that are None), instants are positive integers, and an absent `limit`   *)
(* is NoLimit.  A raised exception is the return value Raised.             *)
(***************************************************************************)
EXTENDS Integers, Sequences, FiniteSets, TLC

\* ------------------------------------------------------------------ bounds
MaxId == 2
MaxTs == 2
MaxBatch == 2
MaxStoreCalls == 2
MaxPages == 2
MaxPageLen == 2
MaxCalls == 2
MaxInterval == 3
MaxDelay == 1
MaxRequests == 2
MaxDays == 3
MaxCount == 1
MaxCkCalls == 3
MaxRuns == 2
MaxRunPages == 1

\* --------------------------------------------------------------- constants
None == 0
Raised == -1
NoLimit == -1
Day == 86400
LastSecond == 86399
SourceName == "polymarket"

Ids == 1..MaxId
Timestamps == 1..MaxTs
Values == {1, 2}

Max(a, b) == IF a >= b THEN a ELSE b
Min(a, b) == IF a <= b THEN a ELSE b

SeqsUpTo(S, n) == UNION {[1..k -> S] : k \in 0..n}

\* --------------------------------------------------------- storage: tables
\* The natural-key columns of each normalized table (its UniqueConstraint).
MarketKey == {"market_id", "source"}
TradeKey == {"trade_id", "source"}
PriceSnapshotKey == {"market_id", "outcome_id", "timestamp", "source"}

\* Normalized records as the adapter's normalize_* functions return them,
\* reduced to the natural key and one non-key column per kind.
MarketRecords ==
    [market_id : Ids, source : {SourceName}, question : Values]
TradeRecords ==
    [trade_id : Ids, source : {SourceName}, timestamp : {None} \cup Timestamps]
PriceSnapshotRecords ==
    [market_id : {1}, outcome_id : Ids, source : {SourceName},
     timestamp : Timestamps, implied_probability : Values]

VARIABLES
    markets,                \* rows of prediction_markets.markets
    trades,                 \* rows of prediction_markets.trades
    price_snapshots,        \* rows of prediction_markets.price_snapshots
    ingestion_checkpoints,  \* rows of prediction_markets.ingestion_checkpoints
    raw_api_responses,      \* rows of prediction_markets.raw_api_responses
    last,                   \* the last storage call made directly: op, batch, result
    storeCalls,             \* number of direct storage calls made
    pc,                     \* where the ingestion engine is
    call,                   \* arguments of the top-level ingest_* call
    frames,                 \* the recursion stack of ingest_*: cursor, since, count
    page,                   \* the page the top frame has fetched
    normalized,             \* the top frame's normalized records
    retval,                 \* the count a frame is returning to its caller
    result,                 \* what the top-level ingest_* call returned
    pageLog,                \* the fetches of the current call, in order
    calls,                  \* number of top-level ingest_* calls started
    fault,                  \* the database or the network has failed during
                            \* the current ingest_* call
    checkpointCalls,        \* how often the current ingest_* call has called
                            \* get_latest_checkpoint and update_checkpoint
    ingestion_errors,       \* Metrics.counters: what the current ingest_*
                            \* call has added to the ingestion.*.errors
                            \* counters, by key
    now,                    \* the wall clock, time.time(), in seconds
    _last_request_time,     \* PolymarketClient._last_request_time
    _min_request_interval,  \* PolymarketClient._min_request_interval
    cpc,                    \* where the client's _request is
    attempt,                \* tenacity's attempt_number of the current request
    outcomes,               \* outcome of each network call of the current request
    starts,                 \* when the last two network calls started
    slept,                  \* how long each attempt of the client has slept
                            \* in _enforce_rate_limit
    requests,               \* number of requests the client has been asked
    counters,               \* Metrics.counters: the api.* counters by key
    gauges,                 \* Metrics.gauges: the api.* gauges by key
    ckLast,                 \* the last direct checkpoint call and its result
    written,                \* per (source, data_type): the timestamp of the
                            \* most recent update_checkpoint that succeeded
    ckCalls,                \* number of direct checkpoint calls
    runs,                   \* per concurrent ingest_trades run: where it is,
                            \* its page, its open session, what it has
                            \* checkpointed
    schemaPc,               \* which normalizer has been applied, if any
    payload,                \* the raw record handed to a normalizer
    record,                 \* what the normalizer returned or raised
    cliPc,                  \* where the CLI command is
    argv,                   \* the command and its options
    db,                     \* what the process has done on the database
    adapter,                \* "none", "open" or "closed"
    engineCalls,            \* the ingest_* calls made by the command
    windows,                \* the day-windows of a backfill
    current,                \* backfill: start of the next window, in seconds
    microsecond,            \* backfill: the microsecond field of `current`
    total,                  \* backfill: running total
    echoed,                 \* the count the command reports at its end
    exit_code               \* the process's exit code, once cliPc = "exit"

storageVars == <<markets, trades, price_snapshots, ingestion_checkpoints,
                 raw_api_responses>>

\* session.query(T).filter_by(<natural key>).first(): the index of the first
\* row whose key columns equal the record's, 0 when there is none.
KeyMatch(row, rec, keycols) == \A c \in keycols : row[c] = rec[c]

\* Mutant of QueryFirst: the lookup never finds a row.
QueryFirstMiss(rows, rec, keycols) == 0

QueryFirst(rows, rec, keycols) ==
    IF \E i \in 1..Len(rows) : KeyMatch(rows[i], rec, keycols)
    THEN CHOOSE i \in 1..Len(rows) :
            /\ KeyMatch(rows[i], rec, keycols)
            /\ \A j \in 1..(i - 1) : ~KeyMatch(rows[j], rec, keycols)
    ELSE 0

\* Mutant of UpsertOne: the lookup is skipped and every record is inserted.
UpsertOneAlwaysInsert(rows, rec, keycols) == Append(rows, rec)

\* One iteration of the upsert loop: update every non-key column of the
\* existing row, or add a new row to the session.
UpsertOne(rows, rec, keycols) ==
    LET i == QueryFirst(rows, rec, keycols)
    IN  IF i # 0
        THEN [rows EXCEPT ![i] =
                [c \in DOMAIN rec |-> IF c \in keycols THEN @[c] ELSE rec[c]]]
        ELSE Append(rows, rec)

\* The session after the loop has processed the first n records of the batch:
\* the rows it sees (autoflush makes pending rows visible to the next query)
\* and the running `count`.
RECURSIVE SessionAfter(_, _, _, _)
SessionAfter(rows, batch, keycols, n) ==
    IF n = 0
    THEN [rows |-> rows, count |-> 0]
    ELSE LET s == SessionAfter(rows, batch, keycols, n - 1)
         IN  [rows |-> UpsertOne(s.rows, batch[n], keycols),
              count |-> s.count + 1]

\* Mutant of rollback: what the session had written before the failure stays.
rollback_partial(committed, pending) == pending

\* session.rollback(): the table is what it was when the session began.
rollback(committed, pending) == committed

\* Mutant of UpsertBatch: the call returns the number of rows it inserted.
UpsertBatchCountsInserts(rows, batch, keycols, failAt) ==
    IF failAt = 0
    THEN LET s == SessionAfter(rows, batch, keycols, Len(batch))
         IN  [rows |-> s.rows, ret |-> Len(s.rows) - Len(rows)]
    ELSE [rows |-> rows, ret |-> Raised]

\* The body shared by store_markets, store_trades and store_price_snapshots:
\* one session, one transaction.  failAt = 0: every record is processed and
\* the commit succeeds.  failAt = k in 1..Len(batch): the k-th iteration
\* raises (the query's autoflush or the statement fails); failAt =
\* Len(batch) + 1: the commit raises.  A failure rolls the session back and
\* re-raises.
UpsertBatch(rows, batch, keycols, failAt) ==
    IF failAt = 0
    THEN LET s == SessionAfter(rows, batch, keycols, Len(batch))
         IN  [rows |-> s.rows, ret |-> s.count]
    ELSE LET done == Min(failAt, Len(batch) + 1) - 1
             s == SessionAfter(rows, batch, keycols, done)
         IN  [rows |-> rollback(rows, s.rows), ret |-> Raised]

store_markets(rows, batch, failAt) == UpsertBatch(rows, batch, MarketKey, failAt)

\* trades.timestamp is NOT NULL: the flush of a record without a timestamp
\* fails, at the query of the next iteration or at the commit.  The index
\* of the first such record of the batch, 0 when there is none, and the
\* point at which the call then fails if nothing failed before.
FirstNullTimestamp(batch) ==
    IF \E i \in 1..Len(batch) : batch[i].timestamp = None
    THEN CHOOSE i \in 1..Len(batch) :
            /\ batch[i].timestamp = None
            /\ \A j \in 1..(i - 1) : batch[j].timestamp # None
    ELSE 0

NotNullFailAt(batch, failAt) ==
    LET k == FirstNullTimestamp(batch)
    IN  IF k # 0 /\ (failAt = 0 \/ failAt > k + 1) THEN k + 1 ELSE failAt

store_trades(rows, batch, failAt) ==
    UpsertBatch(rows, batch, TradeKey, NotNullFailAt(batch, failAt))

store_price_snapshots(rows, batch, failAt) ==
    UpsertBatch(rows, batch, PriceSnapshotKey, failAt)

\* Mutant of store_raw: the archive keeps only the latest response.
store_raw_latest_only(rows, endpoint, cursor, n, fail) ==
    IF fail
    THEN [rows |-> rows, ret |-> Raised]
    ELSE [rows |-> <<[source |-> SourceName, endpoint |-> endpoint,
                      cursor |-> cursor, records |-> n, status_code |-> 200]>>,
          ret |-> 1]

\* store_raw: one archive row is added and committed, or the call raises.
store_raw(rows, endpoint, cursor, n, fail) ==
    IF fail
    THEN [rows |-> rows, ret |-> Raised]
    ELSE [rows |-> Append(rows, [source |-> SourceName, endpoint |-> endpoint,
                                 cursor |-> cursor, records |-> n,
                                 status_code |-> 200]),
          ret |-> Len(rows) + 1]

\* ---------------------------------------------------- storage: checkpoints
\* Mutant of CheckpointMatch: the data type is not part of the filter.
CheckpointMatchSourceOnly(row, source, data_type) == row.source = source

CheckpointMatch(row, source, data_type) ==
    row.source = source /\ row.data_type = data_type

CheckpointFirst(rows, source, data_type) ==
    IF \E i \in 1..Len(rows) : CheckpointMatch(rows[i], source, data_type)
    THEN CHOOSE i \in 1..Len(rows) :
            /\ CheckpointMatch(rows[i], source, data_type)
            /\ \A j \in 1..(i - 1) : ~CheckpointMatch(rows[j], source, data_type)
    ELSE 0

get_latest_checkpoint(rows, source, data_type) ==
    LET i == CheckpointFirst(rows, source, data_type)
    IN  IF i # 0 THEN rows[i].last_sync_timestamp ELSE None

\* Mutant of update_checkpoint: an existing row is deleted, not overwritten.
update_checkpoint_delete(rows, source, data_type, timestamp, fail) ==
    LET i == CheckpointFirst(rows, source, data_type)
    IN  IF fail THEN [rows |-> rows, ret |-> Raised]
        ELSE IF i # 0
        THEN [rows |-> SubSeq(rows, 1, i - 1) \o SubSeq(rows, i + 1, Len(rows)),
              ret |-> None]
        ELSE [rows |-> Append(rows, [source |-> source, data_type |-> data_type,
                                     last_sync_timestamp |-> timestamp]),
              ret |-> None]

\* Mutant of update_checkpoint: an existing row is only ever moved forward.
update_checkpoint_forward(rows, source, data_type, timestamp, fail) ==
    LET i == CheckpointFirst(rows, source, data_type)
    IN  IF fail THEN [rows |-> rows, ret |-> Raised]
        ELSE IF i # 0
        THEN [rows |-> [rows EXCEPT ![i].last_sync_timestamp = Max(@, timestamp)],
              ret |-> None]
        ELSE [rows |-> Append(rows, [source |-> source, data_type |-> data_type,
                                     last_sync_timestamp |-> timestamp]),
              ret |-> None]

update_checkpoint(rows, source, data_type, timestamp, fail) ==
    LET i == CheckpointFirst(rows, source, data_type)
    IN  IF fail THEN [rows |-> rows, ret |-> Raised]
        ELSE IF i # 0
        THEN [rows |-> [rows EXCEPT ![i].last_sync_timestamp = timestamp],
              ret |-> None]
        ELSE [rows |-> Append(rows, [source |-> source, data_type |-> data_type,
                                     last_sync_timestamp |-> timestamp]),
              ret |-> None]

\* ------------------------------------------------------ adapter: normalize
\* Raw records as the API returns them, reduced to the fields the engine's
\* decisions depend on: a timestamp may be absent (None).
RawMarkets == [id : {1}, question : Values]
RawTrades == [id : {1}, timestamp : {None} \cup Timestamps]
\* The timestamp text of a snapshot may carry a UTC offset ("...Z").
RawPriceSnapshots ==
    {r \in [outcomeId : {1}, timestamp : {None} \cup Timestamps,
            offset : BOOLEAN, impliedProbability : {1}] :
        r.timestamp = None => ~r.offset}

\* _parse_datetime: an instant is kept, anything else is None.
_parse_datetime(value) == IF value \in Timestamps THEN value ELSE None

normalize_market(raw) ==
    [market_id |-> raw.id, source |-> SourceName, question |-> raw.question]

normalize_trade(raw) ==
    [trade_id |-> raw.id, source |-> SourceName,
     timestamp |-> _parse_datetime(raw.timestamp)]

\* normalize_price_snapshot: `utcnow` is the clock's reading, used when the
\* raw timestamp is absent or unparsable.
\* The parsed instant is timezone-aware when the text carries an offset;
\* datetime.utcnow() is naive.
normalize_price_snapshot(raw, utcnow) ==
    [market_id |-> 1, outcome_id |-> raw.outcomeId, source |-> SourceName,
     timestamp |-> IF _parse_datetime(raw.timestamp) # None
                   THEN _parse_datetime(raw.timestamp) ELSE utcnow,
     tzinfo |-> (_parse_datetime(raw.timestamp) # None /\ raw.offset),
     implied_probability |-> raw.impliedProbability]

\* What the columns of price_snapshots keep of a normalized snapshot: the
\* DateTime column has no timezone.
PriceSnapshotRow(rec) ==
    [market_id |-> rec.market_id, outcome_id |-> rec.outcome_id,
     source |-> rec.source, timestamp |-> rec.timestamp,
     implied_probability |-> rec.implied_probability]

\* -------------------------------------------------------- adapter: fetch_*
\* The pages a market adapter can answer fetch number idx of a call with: at
\* most `limit` records; a next cursor or none; `more` tells whether that
\* cursor leads to a further page of the adapter's (finite) page sequence.
\* A cursor that leads nowhere is answered with an empty page.
PageLenMax(limit) == IF limit = NoLimit THEN MaxPageLen ELSE Min(limit, MaxPageLen)

AdapterPages(raws, limit, idx, dangling) ==
    IF dangling
    THEN {[data |-> <<>>, n |-> 0, nextCursor |-> None, more |-> FALSE]}
    ELSE {[data |-> d, n |-> Len(d),
           nextCursor |-> IF e.cursor THEN idx + 1 ELSE None, more |-> e.more] :
            d \in SeqsUpTo(raws, PageLenMax(limit)),
            e \in {x \in [cursor : BOOLEAN, more : BOOLEAN] :
                      x.more => (x.cursor /\ idx < MaxPages)}}

\* ------------------------------------------------------- ingestion engine
\* metrics.increment(metric, tags=...).
increment(c, key) == [c EXCEPT ![key] = @ + 1]

engineVars == <<pc, call, frames, page, normalized, retval, result, pageLog, calls,
               fault, checkpointCalls, ingestion_errors>>
clientVars == <<now, _last_request_time, _min_request_interval, cpc, attempt,
                outcomes, starts, slept, requests, counters, gauges>>
directVars == <<last, storeCalls>>
cliVars == <<cliPc, argv, db, adapter, engineCalls, windows, current, microsecond, total,
             echoed, exit_code>>
checkpointVars == <<ckLast, written, ckCalls>>
concurrentVars == <<runs>>
schemaVars == <<schemaPc, payload, record>>
vars == <<storageVars, directVars, engineVars, clientVars, cliVars, checkpointVars,
          concurrentVars, schemaVars>>
\* What the steps of the engine, of a storage call, of the client and of
\* the CLI leave alone.
outsideEngine == <<directVars, clientVars, cliVars, checkpointVars, concurrentVars,
                   schemaVars>>
outsideStorage == <<engineVars, clientVars, cliVars, checkpointVars, concurrentVars,
                    schemaVars>>
outsideClient == <<storageVars, directVars, engineVars, cliVars, checkpointVars,
                   concurrentVars, schemaVars>>
outsideCli == <<storageVars, directVars, engineVars, clientVars, checkpointVars,
                concurrentVars, schemaVars>>
outsideCheckpoint == <<markets, trades, price_snapshots, raw_api_responses,
                       directVars, engineVars, clientVars, cliVars, concurrentVars,
                       schemaVars>>
outsideConcurrent == <<markets, price_snapshots, raw_api_responses,
                       directVars, engineVars, clientVars, cliVars, checkpointVars,
                       schemaVars>>
outsideSchemas == <<storageVars, directVars, engineVars, clientVars, cliVars,
                    checkpointVars, concurrentVars>>

Kinds == {"markets", "trades", "price_snapshots"}
Limits == {NoLimit} \cup (1..MaxPageLen)
\* The `since` a caller passes: none, or an explicit instant.
SinceArgs == {None, 1}
NoPage == [data |-> <<>>, n |-> 0, nextCursor |-> None, more |-> FALSE]

Top == frames[Len(frames)]
Dangling == pageLog # <<>> /\ ~pageLog[Len(pageLog)].more
LogEntry(cursor, since, p, timestamps) ==
    [cursor |-> cursor, since |-> since, n |-> p.n,
     nextCursor |-> p.nextCursor, more |-> p.more, stored |-> None,
     timestamps |-> timestamps]

\* The timestamps of a page of raw trades, as normalize_trade reads them.
PageTimestamps(data) ==
    {_parse_datetime(data[i].timestamp) : i \in 1..Len(data)} \ {None}

\* The keys of Metrics.counters the engine's failure handling writes:
\* metric[tags], the tags sorted by name.  The `except Exception` handler
\* tags the counter with the source; log_duration tags it with its context,
\* which is the source for ingest_markets and the source and market_id for
\* ingest_trades and ingest_price_snapshots.
HandlerErrorsKey(kind) ==
    CASE kind = "markets" -> "ingestion.markets.errors[source=polymarket]"
      [] kind = "trades" -> "ingestion.trades.errors[source=polymarket]"
      [] OTHER -> "ingestion.prices.errors[source=polymarket]"

DurationContextErrorsKey(kind) ==
    CASE kind = "markets" -> "ingestion.markets.errors[source=polymarket]"
      [] kind = "trades" -> "ingestion.trades.errors[market_id=None,source=polymarket]"
      [] OTHER -> "ingestion.prices.errors[market_id=None,source=polymarket]"

ErrorKeys ==
    {HandlerErrorsKey(k) : k \in Kinds} \cup {DurationContextErrorsKey(k) : k \in Kinds}

\* The counters after an exception has left one frame: the handler's
\* increment, then log_duration's as the exception leaves the `with` block.
FrameErrors(c, kind) ==
    increment(increment(c, HandlerErrorsKey(kind)), DurationContextErrorsKey(kind))

\* A caller (a CLI command) invokes engine.ingest_markets / ingest_trades /
\* ingest_price_snapshots.
StartIngest ==
    /\ pc \in {"idle", "done", "raised"}
    /\ calls < MaxCalls
    /\ \E kind \in Kinds, limit \in Limits, sr \in BOOLEAN,
          since \in SinceArgs :
        /\ kind = "markets" => since = None
        /\ kind = "price_snapshots" => limit = NoLimit
        /\ call' = [kind |-> kind, limit |-> limit, store_raw |-> sr, since |-> since]
        /\ frames' = <<[cursor |-> None, since |-> since, count |-> 0]>>
    /\ pc' = "fetch"
    /\ page' = NoPage
    /\ normalized' = <<>>
    /\ retval' = None
    /\ result' = None
    /\ pageLog' = <<>>
    /\ calls' = calls + 1
    /\ fault' = FALSE
    /\ checkpointCalls' = [get |-> 0, update |-> 0]
    /\ ingestion_errors' = [k \in ErrorKeys |-> 0]
    /\ UNCHANGED <<storageVars, outsideEngine>>

\* Mutant of AfterFetch: an empty page is processed like any other.
AfterFetchNoShortCircuit(p) ==
    /\ page' = p
    /\ pc' = IF call.store_raw THEN "archive" ELSE "store"
    /\ retval' = retval

\* What every step does after a page has been fetched: the empty page returns
\* 0 at once, any other goes on to the archive or to the store.
AfterFetch(p) ==
    /\ page' = p
    /\ IF p.data = <<>>
       THEN pc' = "return" /\ retval' = 0
       ELSE /\ pc' = IF call.store_raw THEN "archive" ELSE "store"
            /\ retval' = retval

\* The adapter's fetch raises: the exception reaches the frame's
\* `except Exception` handler.
Raise ==
    /\ pc' = "except"
    /\ fault' = TRUE
    /\ UNCHANGED <<call, frames, page, normalized, retval, result, pageLog, calls,
                   checkpointCalls, ingestion_errors>>

\* Mutant of MarketsFetch: the checkpoint is read before the fetch.
MarketsFetchReadingCheckpoint ==
    /\ pc = "fetch" /\ call.kind = "markets"
    /\ \E p \in AdapterPages(RawMarkets, call.limit, Len(pageLog) + 1, Dangling) :
            /\ AfterFetch(p)
            /\ pageLog' = Append(pageLog, LogEntry(Top.cursor, None, p, {}))
            /\ checkpointCalls' = [checkpointCalls EXCEPT !.get = @ + 1]
            /\ UNCHANGED <<call, frames, normalized, result, calls, fault,
                           ingestion_errors>>
    /\ UNCHANGED <<storageVars, outsideEngine>>

MarketsFetch ==
    /\ pc = "fetch" /\ call.kind = "markets"
    /\ \/ Raise
       \/ \E p \in AdapterPages(RawMarkets, call.limit, Len(pageLog) + 1, Dangling) :
            /\ AfterFetch(p)
            /\ pageLog' = Append(pageLog, LogEntry(Top.cursor, None, p, {}))
            /\ UNCHANGED <<call, frames, normalized, result, calls, fault,
                           checkpointCalls, ingestion_errors>>
    /\ UNCHANGED <<storageVars, outsideEngine>>

\* Mutant of TradesSince: the checkpoint is never used.
TradesSinceIgnoringCheckpoint(since, checkpoint) == since

\* `if since is None: ... if checkpoint: since = checkpoint`: `since` of this frame after the checkpoint
\* has been consulted.
TradesSince(since, checkpoint) ==
    IF since = None /\ checkpoint # None THEN checkpoint ELSE since

TradesFetch ==
    /\ pc = "fetch" /\ call.kind = "trades"
    /\ \/ Raise
       \/ LET checkpoint == get_latest_checkpoint(ingestion_checkpoints,
                                                  SourceName, "trades")
              since == TradesSince(Top.since, checkpoint)
          IN  \E p \in AdapterPages(RawTrades, call.limit, Len(pageLog) + 1, Dangling) :
                /\ AfterFetch(p)
                /\ frames' = [frames EXCEPT ![Len(frames)].since = since]
                /\ pageLog' = Append(pageLog, LogEntry(Top.cursor, since, p, PageTimestamps(p.data)))
                /\ checkpointCalls' =
                      IF Top.since = None
                      THEN [checkpointCalls EXCEPT !.get = @ + 1]
                      ELSE checkpointCalls
                /\ UNCHANGED <<call, normalized, result, calls, fault,
                               ingestion_errors>>
    /\ UNCHANGED <<storageVars, outsideEngine>>

PricesFetch ==
    /\ pc = "fetch" /\ call.kind = "price_snapshots"
    /\ \/ Raise
       \/ \E p \in AdapterPages(RawPriceSnapshots, NoLimit, Len(pageLog) + 1, Dangling) :
            /\ AfterFetch(p)
            /\ pageLog' = Append(pageLog, LogEntry(None, Top.since, p, {}))
            /\ UNCHANGED <<call, frames, normalized, result, calls, fault,
                           checkpointCalls, ingestion_errors>>
    /\ UNCHANGED <<storageVars, outsideEngine>>

\* `if store_raw: storage.store_raw(...)`, the same in the three operations.
StoreRaw ==
    /\ pc = "archive"
    /\ \E fail \in BOOLEAN :
        LET r == store_raw(raw_api_responses, call.kind, Top.cursor,
                           page.n, fail)
        IN  /\ raw_api_responses' = r.rows
            /\ pc' = IF r.ret = Raised THEN "except" ELSE "store"
            /\ fault' = (fault \/ fail)
    /\ UNCHANGED <<markets, trades, price_snapshots, ingestion_checkpoints>>
    /\ UNCHANGED <<call, frames, page, normalized, retval, result, pageLog, calls,
                   checkpointCalls, ingestion_errors>>
    /\ UNCHANGED outsideEngine

MapSeq(f(_), s) == [i \in 1..Len(s) |-> f(s[i])]

\* What follows a store_* call: the count is kept, or the exception handled.
AfterStore(r, next) ==
    /\ pc' = IF r.ret = Raised THEN "except" ELSE next
    /\ page' = [page EXCEPT !.data = <<>>]
    /\ frames' = IF r.ret = Raised THEN frames
                 ELSE [frames EXCEPT ![Len(frames)].count = r.ret]
    /\ pageLog' = IF r.ret = Raised THEN pageLog
                  ELSE [pageLog EXCEPT ![Len(pageLog)].stored = r.ret]

MarketsStore ==
    /\ pc = "store" /\ call.kind = "markets"
    /\ LET norm == MapSeq(normalize_market, page.data)
       IN  \E failAt \in 0..(Len(norm) + 1) :
            LET r == store_markets(markets, norm, failAt)
            IN  /\ markets' = r.rows
                /\ fault' = (fault \/ failAt # 0)
                /\ normalized' = <<>>
                /\ AfterStore(r, "paginate")
    /\ UNCHANGED <<trades, price_snapshots, ingestion_checkpoints, raw_api_responses>>
    /\ UNCHANGED <<call, retval, result, calls, checkpointCalls, ingestion_errors>>
    /\ UNCHANGED outsideEngine

\* Mutant of TradesStore: the checkpoint step follows even a failed store.
TradesStoreThenCheckpointAnyway ==
    /\ pc = "store" /\ call.kind = "trades"
    /\ LET norm == MapSeq(normalize_trade, page.data)
       IN  \E failAt \in 0..(Len(norm) + 1) :
            LET r == store_trades(trades, norm, failAt)
            IN  /\ trades' = r.rows
                /\ fault' = (fault \/ failAt # 0)
                /\ normalized' = norm
                /\ pc' = "checkpoint"
                /\ page' = [page EXCEPT !.data = <<>>]
                /\ frames' = IF r.ret = Raised THEN frames
                             ELSE [frames EXCEPT ![Len(frames)].count = r.ret]
                /\ pageLog' = IF r.ret = Raised THEN pageLog
                              ELSE [pageLog EXCEPT ![Len(pageLog)].stored = r.ret]
    /\ UNCHANGED <<markets, price_snapshots, ingestion_checkpoints, raw_api_responses>>
    /\ UNCHANGED <<call, retval, result, calls, checkpointCalls, ingestion_errors>>
    /\ UNCHANGED outsideEngine

\* Mutant of TradesStore: the pagination step comes right after the store.
TradesStoreSkippingCheckpoint ==
    /\ pc = "store" /\ call.kind = "trades"
    /\ LET norm == MapSeq(normalize_trade, page.data)
       IN  \E failAt \in 0..(Len(norm) + 1) :
            LET r == store_trades(trades, norm, failAt)
            IN  /\ trades' = r.rows
                /\ fault' = (fault \/ failAt # 0)
                /\ normalized' = <<>>
                /\ AfterStore(r, "paginate")
    /\ UNCHANGED <<markets, price_snapshots, ingestion_checkpoints, raw_api_responses>>
    /\ UNCHANGED <<call, retval, result, calls, checkpointCalls, ingestion_errors>>
    /\ UNCHANGED outsideEngine

TradesStore ==
    /\ pc = "store" /\ call.kind = "trades"
    /\ LET norm == MapSeq(normalize_trade, page.data)
       IN  \E failAt \in 0..(Len(norm) + 1) :
            LET r == store_trades(trades, norm, failAt)
            IN  /\ trades' = r.rows
                /\ fault' = (fault \/ failAt # 0)
                /\ normalized' = IF r.ret = Raised THEN <<>> ELSE norm
                /\ AfterStore(r, "checkpoint")
    /\ UNCHANGED <<markets, price_snapshots, ingestion_checkpoints, raw_api_responses>>
    /\ UNCHANGED <<call, retval, result, calls, checkpointCalls, ingestion_errors>>
    /\ UNCHANGED outsideEngine

PricesStore ==
    /\ pc = "store" /\ call.kind = "price_snapshots"
    /\ \E utcnow \in Timestamps :
        LET norm == [i \in 1..Len(page.data) |->
                        normalize_price_snapshot(page.data[i], utcnow)]
        IN  \E failAt \in 0..(Len(norm) + 1) :
             LET r == store_price_snapshots(
                          price_snapshots,
                          [i \in 1..Len(norm) |-> PriceSnapshotRow(norm[i])], failAt)
             IN  /\ price_snapshots' = r.rows
                 /\ fault' = (fault \/ failAt # 0)
                 /\ normalized' = IF r.ret = Raised THEN <<>> ELSE norm
                 /\ AfterStore(r, "checkpoint")
    /\ UNCHANGED <<markets, trades, ingestion_checkpoints, raw_api_responses>>
    /\ UNCHANGED <<call, retval, result, calls, checkpointCalls, ingestion_errors>>
    /\ UNCHANGED outsideEngine

\* max(t["timestamp"] for t in normalized if t.get("timestamp")): the records
\* that have a timestamp, and the greatest of their timestamps.
WithTimestamp(norm) == {norm[i].timestamp : i \in 1..Len(norm)} \ {None}

\* Mutant of LatestTimestamp: the timestamp of the page's last record that has one.
LatestTimestampLast(norm) ==
    norm[CHOOSE i \in 1..Len(norm) :
            /\ norm[i].timestamp # None
            /\ \A j \in (i + 1)..Len(norm) : norm[j].timestamp = None].timestamp

LatestTimestamp(norm) ==
    CHOOSE t \in WithTimestamp(norm) : \A u \in WithTimestamp(norm) : t >= u

\* max() compares a timezone-aware datetime with a naive one: TypeError.
MixedAwareness(norm, data_type) ==
    /\ data_type = "price_snapshots"
    /\ \E i, j \in 1..Len(norm) : norm[i].tzinfo # norm[j].tzinfo

\* The checkpoint advance after a store: max() over no record raises
\* ValueError, over aware and naive timestamps TypeError; else
\* the checkpoint of (source, data_type) is set to the page's latest timestamp.
AdvanceCheckpoint(data_type, next) ==
    /\ normalized' = <<>>
    /\ UNCHANGED ingestion_errors
    /\ IF WithTimestamp(normalized) = {} \/ MixedAwareness(normalized, data_type)
       THEN /\ pc' = "except"
            /\ UNCHANGED <<ingestion_checkpoints, retval, fault, checkpointCalls>>
       ELSE \E fail \in BOOLEAN :
          LET r == update_checkpoint(ingestion_checkpoints, SourceName, data_type,
                                     LatestTimestamp(normalized), fail)
          IN  /\ ingestion_checkpoints' = r.rows
              /\ fault' = (fault \/ fail)
              /\ checkpointCalls' = [checkpointCalls EXCEPT !.update = @ + 1]
              /\ pc' = IF r.ret = Raised THEN "except" ELSE next
              /\ retval' = IF next = "return" /\ r.ret # Raised
                           THEN Top.count ELSE retval

TradesCheckpoint ==
    /\ pc = "checkpoint" /\ call.kind = "trades"
    /\ AdvanceCheckpoint("trades", "paginate")
    /\ UNCHANGED <<markets, trades, price_snapshots, raw_api_responses>>
    /\ UNCHANGED <<call, frames, page, result, pageLog, calls>>
    /\ UNCHANGED outsideEngine

\* Mutant of PricesCheckpoint: the operation goes on to a pagination step.
PricesCheckpointPaginating ==
    /\ pc = "checkpoint" /\ call.kind = "price_snapshots"
    /\ AdvanceCheckpoint("price_snapshots", "paginate")
    /\ UNCHANGED <<markets, trades, price_snapshots, raw_api_responses>>
    /\ UNCHANGED <<call, frames, page, result, pageLog, calls>>
    /\ UNCHANGED outsideEngine

\* ingest_price_snapshots returns `count` right after the checkpoint.
PricesCheckpoint ==
    /\ pc = "checkpoint" /\ call.kind = "price_snapshots"
    /\ AdvanceCheckpoint("price_snapshots", "return")
    /\ UNCHANGED <<markets, trades, price_snapshots, raw_api_responses>>
    /\ UNCHANGED <<call, frames, page, result, pageLog, calls>>
    /\ UNCHANGED outsideEngine

\* Mutant of FetchNext: a further page is fetched whenever a cursor came.
FetchNextIgnoresLimit(next_cursor, limit, n) == next_cursor # None

\* Mutant of FetchNext: a further page is fetched whenever the page was full.
FetchNextIgnoresCursor(next_cursor, limit, n) == limit = NoLimit \/ n = limit

\* `if next_cursor and (limit is None or len(raw) == limit)`.
FetchNext(next_cursor, limit, n) ==
    next_cursor # None /\ (limit = NoLimit \/ n = limit)

\* The end of ingest_markets / ingest_trades: recurse for the next page with the frame's
\* cursor, limit, since and store_raw, or return the count.
Paginate ==
    /\ pc = "paginate"
    /\ IF FetchNext(page.nextCursor, call.limit, page.n)
       THEN /\ frames' = Append(frames, [cursor |-> page.nextCursor,
                                         since |-> Top.since, count |-> 0])
            /\ pc' = "fetch"
            /\ page' = NoPage
            /\ normalized' = <<>>
            /\ retval' = retval
       ELSE /\ pc' = "return"
            /\ retval' = Top.count
            /\ UNCHANGED <<frames, page, normalized>>
    /\ UNCHANGED <<call, result, pageLog, calls, fault, checkpointCalls, ingestion_errors>>
    /\ UNCHANGED <<storageVars, outsideEngine>>

\* `count += additional`.
Accumulate(count, additional) == count + additional

\* A frame returns: to the caller of the top-level call, or to the frame
\* that recursed, which adds the count to its own and returns in turn.
Return ==
    /\ pc = "return"
    /\ IF Len(frames) = 1
       THEN /\ result' = retval
            /\ pc' = "done"
            /\ frames' = <<>>
            /\ retval' = retval
       ELSE /\ frames' = SubSeq(frames, 1, Len(frames) - 1)
            /\ retval' = Accumulate(frames[Len(frames) - 1].count, retval)
            /\ pc' = "return"
            /\ result' = result
    /\ UNCHANGED <<call, page, normalized, pageLog, calls, fault, checkpointCalls, ingestion_errors>>
    /\ UNCHANGED <<storageVars, outsideEngine>>

\* The `except Exception` handler of a frame: log, count the error, re-raise
\* through log_duration to the frame's caller.
Except ==
    /\ pc = "except"
    /\ frames' = SubSeq(frames, 1, Len(frames) - 1)
    /\ IF Len(frames) = 1
       THEN pc' = "raised" /\ result' = Raised
       ELSE pc' = "except" /\ result' = result
    /\ ingestion_errors' = FrameErrors(ingestion_errors, call.kind)
    /\ UNCHANGED <<call, page, normalized, retval, pageLog, calls, fault,
                   checkpointCalls>>
    /\ UNCHANGED <<storageVars, outsideEngine>>

EngineInit ==
    /\ pc = "idle"
    /\ call = [kind |-> "markets", limit |-> NoLimit, store_raw |-> TRUE, since |-> None]
    /\ frames = <<>>
    /\ page = NoPage
    /\ normalized = <<>>
    /\ retval = None
    /\ result = None
    /\ pageLog = <<>>
    /\ calls = 0
    /\ fault = FALSE
    /\ checkpointCalls = [get |-> 0, update |-> 0]
    /\ ingestion_errors = [k \in ErrorKeys |-> 0]

StorageInit ==
    /\ markets = <<>>
    /\ trades = <<>>
    /\ price_snapshots = <<>>
    /\ ingestion_checkpoints = <<>>
    /\ raw_api_responses = <<>>

NoCall == [op |-> "none", batch |-> <<>>, before |-> <<>>, failAt |-> 0, ret |-> None]

DirectInit == last = NoCall /\ storeCalls = 0

\* --------------------------------------------- storage called on its own
\* A client of the StorageBackend interface calls store_markets,
\* store_trades or store_price_snapshots with a batch; `last` keeps the
\* call: the batch, the table as it was before, and what was returned.
Batches(records) == SeqsUpTo(records, MaxBatch)

DirectStoreMarkets ==
    /\ storeCalls < MaxStoreCalls
    /\ \E batch \in Batches(MarketRecords) :
        \E failAt \in 0..(Len(batch) + 1) :
            LET r == store_markets(markets, batch, failAt)
            IN  /\ markets' = r.rows
                /\ last' = [op |-> "store_markets", batch |-> batch,
                            before |-> markets, failAt |-> failAt,
                            ret |-> r.ret]
    /\ storeCalls' = storeCalls + 1
    /\ UNCHANGED <<trades, price_snapshots, ingestion_checkpoints, raw_api_responses>>
    /\ UNCHANGED outsideStorage

DirectStoreTrades ==
    /\ storeCalls < MaxStoreCalls
    /\ \E batch \in Batches(TradeRecords) :
        \E failAt \in 0..(Len(batch) + 1) :
            LET r == store_trades(trades, batch, failAt)
            IN  /\ trades' = r.rows
                /\ last' = [op |-> "store_trades", batch |-> batch,
                            before |-> trades, failAt |-> failAt,
                            ret |-> r.ret]
    /\ storeCalls' = storeCalls + 1
    /\ UNCHANGED <<markets, price_snapshots, ingestion_checkpoints, raw_api_responses>>
    /\ UNCHANGED outsideStorage

DirectStorePriceSnapshots ==
    /\ storeCalls < MaxStoreCalls
    /\ \E batch \in Batches(PriceSnapshotRecords) :
        \E failAt \in 0..(Len(batch) + 1) :
            LET r == store_price_snapshots(price_snapshots, batch, failAt)
            IN  /\ price_snapshots' = r.rows
                /\ last' = [op |-> "store_price_snapshots", batch |-> batch,
                            before |-> price_snapshots, failAt |-> failAt,
                            ret |-> r.ret]
    /\ storeCalls' = storeCalls + 1
    /\ UNCHANGED <<markets, trades, ingestion_checkpoints, raw_api_responses>>
    /\ UNCHANGED outsideStorage

\* A client of the StorageBackend interface calls update_checkpoint or
\* get_latest_checkpoint for a (source, data_type) pair; `ckLast` keeps the
\* call, the table as it was before, and what was returned.
Sources == {SourceName, "other"}
CheckpointTypes == {"trades", "price_snapshots"}
Pairs == Sources \X CheckpointTypes
NoCheckpointCall ==
    [op |-> "none", source |-> SourceName, data_type |-> "trades",
     timestamp |-> None, before |-> <<>>, ret |-> None]

CheckpointInit ==
    /\ ckLast = NoCheckpointCall
    /\ written = [pr \in Pairs |-> None]
    /\ ckCalls = 0

DirectUpdateCheckpoint ==
    /\ ckCalls < MaxCkCalls
    /\ \E pr \in Pairs, timestamp \in Timestamps, fail \in BOOLEAN :
        LET r == update_checkpoint(ingestion_checkpoints, pr[1], pr[2], timestamp, fail)
        IN  /\ ingestion_checkpoints' = r.rows
            /\ ckLast' = [op |-> "update_checkpoint", source |-> pr[1],
                          data_type |-> pr[2], timestamp |-> timestamp,
                          before |-> ingestion_checkpoints, ret |-> r.ret]
            /\ written' = IF r.ret = Raised THEN written
                          ELSE [written EXCEPT ![pr] = timestamp]
    /\ ckCalls' = ckCalls + 1
    /\ UNCHANGED outsideCheckpoint

DirectGetLatestCheckpoint ==
    /\ ckCalls < MaxCkCalls
    /\ \E pr \in Pairs :
        ckLast' = [op |-> "get_latest_checkpoint", source |-> pr[1],
                   data_type |-> pr[2], timestamp |-> None,
                   before |-> ingestion_checkpoints,
                   ret |-> get_latest_checkpoint(ingestion_checkpoints, pr[1], pr[2])]
    /\ ckCalls' = ckCalls + 1
    /\ UNCHANGED <<ingestion_checkpoints, written>>
    /\ UNCHANGED outsideCheckpoint

NextCheckpoint ==
    \/ DirectUpdateCheckpoint
    \/ DirectGetLatestCheckpoint

NextStorage ==
    \/ DirectStoreMarkets
    \/ DirectStoreTrades
    \/ DirectStorePriceSnapshots

\* ---------------------------------------------------- concurrent runs
\* Several processes run ingest_trades against the same database, each
\* with its own PostgresStorage.  Every storage call opens its own session:
\* the statements of a session are one transaction, whose writes other
\* sessions see only once it has committed (the database's default, read
\* committed).  A run fetches a page, upserts it record by record in a
\* session, commits, then updates the checkpoint.
Runs == 1..MaxRuns
\* The normalized records of the pages: trades that carry a timestamp.
RunRecords == [trade_id : Ids, source : {SourceName}, timestamp : Timestamps]
RunPages == SeqsUpTo(RunRecords, MaxBatch) \ {<<>>}

NoRun == [pc |-> "idle", batch |-> <<>>, done |-> 0, inserts |-> {},
          checkpointed |-> None, pages |-> 0]

ConcurrentInit == runs = [r \in Runs |-> NoRun]

\* fetch_trades and normalize_trade: the run has a non-empty page and
\* store_trades opens its session.
RunFetch(r) ==
    /\ runs[r].pc = "idle"
    /\ runs[r].pages < MaxRunPages
    /\ \E batch \in RunPages :
        runs' = [runs EXCEPT ![r].pc = "session", ![r].batch = batch,
                             ![r].done = 0, ![r].inserts = {},
                             ![r].pages = @ + 1]
    /\ UNCHANGED <<trades, ingestion_checkpoints>>
    /\ UNCHANGED outsideConcurrent

\* What the session of run r sees: the committed rows and its own writes.
SessionView(r) ==
    SessionAfter(trades, runs[r].batch, TradeKey, runs[r].done).rows

\* Mutant of RunUpsert: every statement is committed as it is made.
RunUpsertAutocommit(r) ==
    /\ runs[r].pc = "session"
    /\ runs[r].done < Len(runs[r].batch)
    /\ trades' = UpsertOne(trades, runs[r].batch[runs[r].done + 1], TradeKey)
    /\ runs' = [runs EXCEPT ![r].done = @ + 1]
    /\ UNCHANGED ingestion_checkpoints
    /\ UNCHANGED outsideConcurrent

\* One iteration of store_trades' loop in run r's session: the query, then
\* the update of the row found or the add of a new one.  Nothing is
\* committed.
RunUpsert(r) ==
    /\ runs[r].pc = "session"
    /\ runs[r].done < Len(runs[r].batch)
    /\ LET rec == runs[r].batch[runs[r].done + 1]
       IN  runs' = [runs EXCEPT
                       ![r].done = @ + 1,
                       ![r].inserts =
                           IF QueryFirst(SessionView(r), rec, TradeKey) = 0
                           THEN @ \cup {rec.trade_id} ELSE @]
    /\ UNCHANGED <<trades, ingestion_checkpoints>>
    /\ UNCHANGED outsideConcurrent

\* A row with this trade_id has been committed (uq_trades_id_source).
Committed(id) == \E i \in 1..Len(trades) : trades[i].trade_id = id

\* session.commit() of run r: the session's writes become visible at once;
\* when a key the session has added was committed by another session in
\* the meantime, or the commit fails, the session is rolled back and
\* store_trades raises.
RunCommit(r) ==
    /\ runs[r].pc = "session"
    /\ runs[r].done = Len(runs[r].batch)
    /\ \E fail \in BOOLEAN :
        IF fail \/ \E id \in runs[r].inserts : Committed(id)
        THEN /\ trades' = rollback(trades, SessionView(r))
             /\ runs' = [runs EXCEPT ![r].pc = "failed"]
        ELSE /\ trades' = SessionView(r)
             /\ runs' = [runs EXCEPT ![r].pc = "checkpoint"]
    /\ UNCHANGED ingestion_checkpoints
    /\ UNCHANGED outsideConcurrent

\* A statement of run r's session fails before the commit: rollback, raise.
RunRollback(r) ==
    /\ runs[r].pc = "session"
    /\ runs[r].done < Len(runs[r].batch)
    /\ trades' = rollback(trades, SessionView(r))
    /\ runs' = [runs EXCEPT ![r].pc = "failed"]
    /\ UNCHANGED ingestion_checkpoints
    /\ UNCHANGED outsideConcurrent

\* update_checkpoint(source, "trades", latest_timestamp) of run r, taken as
\* one step; the run then returns or goes on to its next page.
RunCheckpoint(r) ==
    /\ runs[r].pc = "checkpoint"
    /\ \E fail \in BOOLEAN :
        LET latest_timestamp == LatestTimestamp(runs[r].batch)
            u == update_checkpoint(ingestion_checkpoints, SourceName, "trades",
                                   latest_timestamp, fail)
        IN  /\ ingestion_checkpoints' = u.rows
            /\ runs' = IF u.ret = Raised
                       THEN [runs EXCEPT ![r].pc = "failed"]
                       ELSE [runs EXCEPT ![r].pc = "idle",
                                ![r].checkpointed = Max(@, latest_timestamp)]
    /\ UNCHANGED trades
    /\ UNCHANGED outsideConcurrent

NextConcurrent ==
    \E r \in Runs :
        \/ RunFetch(r)
        \/ RunUpsert(r)
        \/ RunCommit(r)
        \/ RunRollback(r)
        \/ RunCheckpoint(r)

\* ------------------------------------------------------------- the client
\* A client is built with rate_limit_per_second = 1 / interval for a whole
\* number of seconds `interval`; the wall clock reads seconds since the
\* epoch, which is later than one interval after it.
Intervals == 1..MaxInterval
Delays == 0..MaxDelay

\* What one network call (httpx's client.request, raise_for_status, json)
\* ends with: a response whose body parses, a transient transport error
\* (TimeoutException or NetworkError), a non-2xx status (HTTPStatusError,
\* here 404 or 500), any other exception, or a 2xx response whose body is
\* not JSON (response.json() raises after the success counter was
\* incremented).
HttpErrors == {"http_404", "http_500"}
Outcomes == {"ok", "transient", "other", "bad_json"} \cup HttpErrors

\* The keys of Metrics.counters the client writes: metric[tags].
SuccessKey == "api.requests.success[method=POST]"
StatusKey(outcome) ==
    IF outcome = "http_404" THEN "api.requests.error[status=404]"
    ELSE "api.requests.error[status=500]"
ErrorTypeKey(outcome) ==
    CASE outcome = "transient" -> "api.requests.error[error_type=TimeoutException]"
      [] outcome = "bad_json" -> "api.requests.error[error_type=JSONDecodeError]"
      [] OTHER -> "api.requests.error[error_type=RuntimeError]"
DurationErrorsKey == "api.request.errors[method=POST,url=graphql]"
CounterKeys ==
    {SuccessKey, DurationErrorsKey}
    \cup {StatusKey(o) : o \in HttpErrors}
    \cup {ErrorTypeKey(o) : o \in Outcomes \ (HttpErrors \cup {"ok"})}

\* The counters after a network call that ended with `outcome`: the success
\* counter after raise_for_status; the error counter tagged with the status
\* in the HTTPStatusError handler, tagged with the error type in the
\* `except Exception` handler; log_duration counts every exception that
\* leaves its block.
Counted(c, outcome) ==
    CASE outcome = "ok" -> increment(c, SuccessKey)
      [] outcome \in HttpErrors ->
            increment(increment(c, StatusKey(outcome)), DurationErrorsKey)
      [] outcome = "bad_json" ->
            increment(increment(increment(c, SuccessKey), ErrorTypeKey(outcome)),
                      DurationErrorsKey)
      [] OTHER -> increment(increment(c, ErrorTypeKey(outcome)), DurationErrorsKey)

\* metrics.gauge(metric, value, tags): the gauge of the key is set.
DurationGaugeKey == "api.request.duration[method=POST,url=graphql]"
gauge(g, key, value) ==
    [k \in DOMAIN g \cup {key} |-> IF k = key THEN value ELSE g[k]]

\* Mutant of Timed: the duration is recorded whatever the block did.
TimedAlways(g, outcome, duration) == gauge(g, DurationGaugeKey, duration)

\* log_duration records the duration of a block that completes; a block that
\* raises leaves the gauges alone.
Timed(g, outcome, duration) ==
    IF outcome = "ok" THEN gauge(g, DurationGaugeKey, duration) ELSE g

\* No client has been built yet.
ClientInit ==
    /\ _min_request_interval = None
    /\ now = MaxInterval
    /\ _last_request_time = None
    /\ cpc = "none"
    /\ attempt = 0
    /\ outcomes = <<>>
    /\ starts = <<None, None>>
    /\ slept = <<>>
    /\ requests = 0
    /\ counters = [k \in CounterKeys |-> 0]
    /\ gauges = [k \in {} |-> 0]

\* PolymarketClient.__init__: the interval is 1 / rate_limit_per_second and
\* the last request is dated at the epoch.
ClientConstruct ==
    /\ cpc = "none"
    /\ _min_request_interval' \in Intervals
    /\ _last_request_time' = 0
    /\ cpc' = "idle"
    /\ UNCHANGED <<now, attempt, outcomes, starts, slept, requests, counters, gauges>>
    /\ UNCHANGED outsideClient

\* query_graphql calls _request: tenacity makes the first attempt.
ClientRequest ==
    /\ cpc \in {"idle", "returned", "raised"}
    /\ requests < MaxRequests
    /\ requests' = requests + 1
    /\ attempt' = 1
    /\ outcomes' = <<>>
    /\ cpc' = "rate_limit"
    /\ \E d \in Delays : now' = now + d
    /\ UNCHANGED <<_last_request_time, _min_request_interval, starts, slept, counters,
                   gauges>>
    /\ UNCHANGED outsideClient

\* Mutant of SleepTime: the rate limiter never sleeps.
SleepTimeNever(elapsed, interval) == 0

\* `if elapsed < interval: sleep_time = interval - elapsed`.
SleepTime(elapsed, interval) == IF elapsed < interval THEN interval - elapsed ELSE 0

\* _enforce_rate_limit: sleep for what is left of the interval (time.sleep
\* may take longer), then stamp _last_request_time with the clock.
EnforceRateLimit ==
    /\ cpc = "rate_limit"
    /\ LET sleep_time == SleepTime(now - _last_request_time, _min_request_interval)
       IN  \E over \in Delays :
            /\ now' = now + sleep_time + (IF sleep_time > 0 THEN over ELSE 0)
            /\ slept' = Append(slept, sleep_time)
    /\ _last_request_time' = now'
    /\ cpc' = "send"
    /\ UNCHANGED <<_min_request_interval, attempt, outcomes, starts, requests,
                   counters, gauges>>
    /\ UNCHANGED outsideClient

\* Mutant of stop_after_attempt: two attempts in all.
stop_after_attempt_2(attempt_number) == attempt_number >= 2

\* Mutant of stop_after_attempt: four attempts in all.
stop_after_attempt_4(attempt_number) == attempt_number >= 4

\* stop=stop_after_attempt(3).
stop_after_attempt(attempt_number) == attempt_number >= 3

\* Mutant of retry_if_exception_type: every exception is retried.
retry_if_any_exception(outcome) == outcome # "ok"

\* retry=retry_if_exception_type((TimeoutException, NetworkError)).
retry_if_exception_type(outcome) == outcome = "transient"

\* wait=wait_exponential(multiplier=1, min=2, max=10), in seconds.
wait_exponential(attempt_number) == Max(2, Min(1 * (2 ^ attempt_number), 10))

\* The body of _request after the rate limiter: the network call starts
\* (the statements between the stamp and client.request take no time at
\* the clock's resolution of one second) and ends dur seconds later.  A
\* response is returned; a transient transport error is retried unless the
\* attempts are used up; anything else is raised at once.
Send ==
    /\ cpc = "send"
    /\ \E dur \in Delays, outcome \in Outcomes :
        /\ starts' = <<starts[2], now>>
        /\ now' = now + dur
        /\ outcomes' = Append(outcomes, outcome)
        /\ cpc' = IF outcome = "ok" THEN "returned"
                  ELSE IF retry_if_exception_type(outcome) /\ ~stop_after_attempt(attempt)
                  THEN "backoff"
                  ELSE "raised"
        /\ counters' = Counted(counters, outcome)
        /\ gauges' = Timed(gauges, outcome, now' - now)
    /\ UNCHANGED <<_last_request_time, _min_request_interval, attempt, slept,
                   requests>>
    /\ UNCHANGED outsideClient

\* tenacity sleeps for the wait of this attempt and calls _request again.
Backoff ==
    /\ cpc = "backoff"
    /\ \E over \in Delays : now' = now + wait_exponential(attempt) + over
    /\ attempt' = attempt + 1
    /\ cpc' = "rate_limit"
    /\ UNCHANGED <<_last_request_time, _min_request_interval, outcomes, starts,
                   slept, requests, counters, gauges>>
    /\ UNCHANGED outsideClient

NextClient ==
    \/ ClientConstruct
    \/ ClientRequest
    \/ EnforceRateLimit
    \/ Send
    \/ Backoff

\* ---------------------------------------------------------------- the CLI
\* Instants are seconds counted from a midnight; the commands are given
\* midnights and noons of the days 0..MaxDays.
Noon == Day \div 2
Instants == {d * Day + o : d \in 0..MaxDays, o \in {0, Noon}}
Midnights == {d * Day : d \in 0..MaxDays}

\* The text of a date option: not given, text that does not parse, or the
\* text of an instant.
\* The text of an instant may carry a fraction of a second, which the
\* datetime keeps in its microsecond field.
HalfSecond == 500000
Microseconds == {0, HalfSecond}
NoText == [given |-> FALSE, valid |-> FALSE, instant |-> None, microsecond |-> 0]
BadText == [given |-> TRUE, valid |-> FALSE, instant |-> None, microsecond |-> 0]
DateTexts ==
    {BadText}
    \cup {[given |-> TRUE, valid |-> TRUE, instant |-> t, microsecond |-> u] :
             t \in Instants, u \in Microseconds}

\* a < b for datetimes a = (t1, u1) and b = (t2, u2): seconds, then
\* microseconds.
Before(t1, u1, t2, u2) == t1 < t2 \/ (t1 = t2 /\ u1 < u2)

\* dateutil's parse: the instant, or ValueError.
parse_date(text) == IF text.valid THEN text.instant ELSE Raised

DataTypes == {"trades", "prices"}
NoArgs == [command |-> "none", since |-> NoText, start |-> NoText, end |-> NoText,
           data_type |-> "trades"]

\* What click hands to the command: --start and --end are required,
\* --data-type is one of the two choices.
Argvs ==
    {[NoArgs EXCEPT !.command = c] : c \in {"markets", "prices"}}
    \cup {[NoArgs EXCEPT !.command = "trades", !.since = t] : t \in {NoText} \cup DateTexts}
    \cup {[NoArgs EXCEPT !.command = "backfill", !.start = a, !.end = b, !.data_type = k] :
             a \in DateTexts, b \in DateTexts, k \in DataTypes}

\* The engine seen from the CLI: a call returns a count or raises.
Counts == 0..MaxCount
EngineResults == Counts \cup {Raised}

\* The greatest timestamp among the trades an ingest_trades call has stored:
\* none when it stored nothing or raised; else an instant after `since`,
\* the only bound ingest_trades and fetch_trades take (None, no bound, is
\* before every instant).
Latests(since, count) ==
    IF count = Raised \/ count = 0
    THEN {None}
    ELSE {t \in Instants : t > since}

CliInit ==
    /\ cliPc = "start"
    /\ argv = NoArgs
    /\ db = <<>>
    /\ adapter = "none"
    /\ engineCalls = <<>>
    /\ windows = <<>>
    /\ current = None
    /\ microsecond = 0
    /\ total = 0
    /\ echoed = None
    /\ exit_code = 0

\* The process is started with a command line.
CliInvoke ==
    /\ cliPc = "start"
    /\ argv' \in Argvs
    /\ cliPc' = "get_storage"
    /\ UNCHANGED <<db, adapter, engineCalls, windows, current, microsecond, total, echoed, exit_code>>
    /\ UNCHANGED outsideCli

\* get_storage: PostgresStorage(..., create_tables=True) connects to the
\* database, executes the schema statement, commits and runs create_all.
\* When the database cannot be reached the exception ends the process.
GetStorage ==
    /\ cliPc = "get_storage"
    /\ \E reachable \in BOOLEAN :
        IF reachable
        THEN /\ db' = <<"connect", "execute", "commit", "create_all">>
             /\ cliPc' = "get_adapter"
             /\ UNCHANGED exit_code
        ELSE /\ db' = <<"connect">>
             /\ cliPc' = "exit"
             /\ exit_code' = 1
    /\ UNCHANGED <<argv, adapter, engineCalls, windows, current, microsecond, total, echoed>>
    /\ UNCHANGED outsideCli

\* get_adapter and IngestionEngine(...): the adapter opens its HTTP client;
\* nothing is sent.
GetAdapter ==
    /\ cliPc = "get_adapter"
    /\ adapter' = "open"
    /\ cliPc' = IF argv.command \in {"trades", "backfill"} THEN "parse" ELSE "ingest"
    /\ UNCHANGED <<argv, db, engineCalls, windows, current, microsecond, total, echoed, exit_code>>
    /\ UNCHANGED outsideCli

\* sys.exit(code) outside the try ... finally: the adapter is left as it is.
Exit(code) ==
    /\ cliPc' = "exit"
    /\ exit_code' = code
    /\ UNCHANGED adapter

\* Mutant of ExitClosing: the exit code is 0 whatever happened.
ExitClosingZero(code) ==
    /\ cliPc' = "exit"
    /\ exit_code' = 0
    /\ adapter' = "closed"

\* sys.exit(code), or the end of the command, inside try ... finally:
\* adapter.close() runs first.
ExitClosing(code) ==
    /\ cliPc' = "exit"
    /\ exit_code' = code
    /\ adapter' = "closed"

\* trades: `if since:` parses the option; ValueError exits with 1.
TradesParse ==
    /\ cliPc = "parse" /\ argv.command = "trades"
    /\ IF argv.since.given /\ parse_date(argv.since) = Raised
       THEN Exit(1)
       ELSE cliPc' = "ingest" /\ UNCHANGED <<adapter, exit_code>>
    /\ UNCHANGED <<argv, db, engineCalls, windows, current, microsecond, total, echoed>>
    /\ UNCHANGED outsideCli

\* The `since` the trades command passes on.
since_dt == IF argv.command = "trades" /\ argv.since.given
            THEN parse_date(argv.since) ELSE None

\* markets, trades, prices: one engine call; its count is echoed, an
\* exception exits with 1; the adapter is closed either way.
Ingest ==
    /\ cliPc = "ingest"
    /\ \E count \in EngineResults :
        /\ \E latest \in (IF argv.command = "trades"
                           THEN Latests(since_dt, count) ELSE {None}) :
              engineCalls' = Append(engineCalls,
                                    [kind |-> argv.command, since |-> since_dt,
                                     count |-> count, latest |-> latest])
        /\ IF count = Raised
           THEN ExitClosing(1) /\ UNCHANGED echoed
           ELSE ExitClosing(0) /\ echoed' = count
    /\ UNCHANGED <<argv, db, windows, current, microsecond, total>>
    /\ UNCHANGED outsideCli

\* backfill: both dates are parsed, ValueError exits with 1; then
\* `if start_dt >= end_dt` exits with 1.
BackfillParse ==
    /\ cliPc = "parse" /\ argv.command = "backfill"
    /\ LET start_dt == parse_date(argv.start)
           end_dt == parse_date(argv.end)
       IN  IF start_dt = Raised \/ end_dt = Raised
           THEN Exit(1)
           ELSE IF ~Before(start_dt, argv.start.microsecond,
                           end_dt, argv.end.microsecond)
           THEN Exit(1)
           ELSE cliPc' = "backfill" /\ UNCHANGED <<adapter, exit_code>>
    /\ UNCHANGED <<argv, db, engineCalls, windows, current, microsecond, total, echoed>>
    /\ UNCHANGED outsideCli

\* backfill, inside the try: trades start the loop at start_dt with total
\* 0; prices are not implemented and exit with 1.
BackfillBranch ==
    /\ cliPc = "backfill"
    /\ IF argv.data_type = "trades"
       THEN /\ current' = parse_date(argv.start)
            /\ microsecond' = argv.start.microsecond
            /\ total' = 0
            /\ cliPc' = "loop"
            /\ UNCHANGED <<adapter, exit_code>>
       ELSE ExitClosing(1) /\ UNCHANGED <<current, microsecond, total>>
    /\ UNCHANGED <<argv, db, engineCalls, windows, echoed>>
    /\ UNCHANGED outsideCli

\* replace(hour=0, minute=0, second=0) on the seconds of a datetime; the
\* microsecond field is not replaced.
StartOfDay(t) == t - (t % Day)

\* Mutant of EndOfDay: the midnight that ends the day.
EndOfDayMidnight(t) == StartOfDay(t) + Day

\* replace(hour=23, minute=59, second=59).
EndOfDay(t) == StartOfDay(t) + LastSecond

\* `next_day`: the end of the current day, or end_dt when that is earlier.
next_day(cur, end_dt) == IF EndOfDay(cur) > end_dt THEN end_dt ELSE EndOfDay(cur)

\* The microsecond field of `next_day`: replace(hour=23, minute=59,
\* second=59) keeps that of `current`; end_dt brings its own.
next_day_microsecond(cur, u, end_dt, end_u) ==
    IF Before(end_dt, end_u, EndOfDay(cur), u) THEN end_u ELSE u

\* One turn of `while current < end_dt`: the window is echoed, the engine
\* is called with since = current, and either it raises (exit 1) or its
\* count is added and current moves to the midnight after next_day.
BackfillWindow ==
    /\ cliPc = "loop"
    /\ Before(current, microsecond, parse_date(argv.end), argv.end.microsecond)
    /\ LET nd == next_day(current, parse_date(argv.end))
           nd_microsecond == next_day_microsecond(current, microsecond,
                                                  parse_date(argv.end),
                                                  argv.end.microsecond)
       IN  \E count \in EngineResults :
            /\ windows' = Append(windows, [start |-> current, end |-> nd, count |-> count])
            /\ \E latest \in Latests(current, count) :
                  engineCalls' = Append(engineCalls,
                                        [kind |-> "trades", since |-> current,
                                         count |-> count, latest |-> latest])
            /\ IF count = Raised
               THEN ExitClosing(1) /\ UNCHANGED <<current, microsecond, total>>
               ELSE /\ total' = total + count
                    /\ current' = StartOfDay(nd) + Day
                    /\ microsecond' = nd_microsecond
                    /\ UNCHANGED <<cliPc, adapter, exit_code>>
    /\ UNCHANGED <<argv, db, echoed>>
    /\ UNCHANGED outsideCli

\* The loop is over: the grand total is echoed and the command ends.
BackfillComplete ==
    /\ cliPc = "loop"
    /\ ~Before(current, microsecond, parse_date(argv.end), argv.end.microsecond)
    /\ echoed' = total
    /\ ExitClosing(0)
    /\ UNCHANGED <<argv, db, engineCalls, windows, current, microsecond, total>>
    /\ UNCHANGED outsideCli

NextCli ==
    \/ CliInvoke
    \/ GetStorage
    \/ GetAdapter
    \/ TradesParse
    \/ Ingest
    \/ BackfillParse
    \/ BackfillBranch
    \/ BackfillWindow
    \/ BackfillComplete

\* ------------------------------------------------------------ the schemas
\* The normalizers of schemas.py on the fields they parse.  A field of a raw
\* record is missing, or holds a JSON value: null, a number, a string (the
\* text of a number or of an instant, or text that is neither), or an array.
\* Numbers are counted in half-cents, so that the mean of two of them is
\* exact; instants are the Timestamps.
Amounts == {0, 80, 120}
Absent == [type |-> "absent", parses |-> FALSE, value |-> 0]
JsonNull == [type |-> "null", parses |-> FALSE, value |-> 0]
JsonArray == [type |-> "array", parses |-> FALSE, value |-> 0]
JsonText == [type |-> "string", parses |-> FALSE, value |-> 0]
JsonNumber(n) == [type |-> "number", parses |-> TRUE, value |-> n]
JsonString(n) == [type |-> "string", parses |-> TRUE, value |-> n]
NumberFields ==
    {Absent, JsonNull, JsonArray, JsonText, JsonString(80)}
    \cup {JsonNumber(n) : n \in Amounts}
TimestampFields ==
    {Absent, JsonNull, JsonText, JsonNumber(1)}
    \cup {JsonString(t) : t \in Timestamps}

\* What a Python expression evaluates to: None, a value, or an exception.
PyNone == [kind |-> "None", value |-> 0]
Py(v) == [kind |-> "value", value |-> v]
PyRaise(exception) == [kind |-> exception, value |-> 0]
Raises(r) == r.kind \notin {"None", "value"}

\* raw.get(key): None for a missing key, and JSON null is None.
get(raw, key) == IF raw[key] = Absent THEN JsonNull ELSE raw[key]

\* float(value): the number, the number a string spells, ValueError for
\* other text, TypeError for what is neither a number nor a string.
float(value) ==
    CASE value.type = "number" -> Py(value.value)
      [] value.type = "string" /\ value.parses -> Py(value.value)
      [] value.type = "string" -> PyRaise("ValueError")
      [] OTHER -> PyRaise("TypeError")

\* Mutant of _parse_float: only TypeError is caught.
_parse_float_TypeError(value, default) ==
    IF value = JsonNull THEN default
    ELSE IF float(value).kind = "TypeError" THEN default ELSE float(value)

\* _parse_float: the default for None and for what float() rejects with
\* ValueError or TypeError.
_parse_float(value, default) ==
    IF value = JsonNull THEN default
    ELSE IF float(value).kind \in {"ValueError", "TypeError"} THEN default
         ELSE float(value)

\* dateutil's parse on the text of a field: the instant, or ParserError (a
\* ValueError).
parse_date_text(value) ==
    IF value.parses THEN Py(value.value) ELSE PyRaise("ValueError")

\* _parse_datetime on a JSON value: None for None, the parsed instant of a
\* string, None for a string that does not parse and for any other value.
_parse_datetime_value(value) ==
    IF value = JsonNull THEN PyNone
    ELSE IF value.type = "string"
         THEN IF parse_date_text(value).kind \in {"ValueError", "TypeError"}
              THEN PyNone ELSE parse_date_text(value)
         ELSE PyNone

\* The first exception among the evaluated fields, in order, leaves the
\* normalizer; else the dictionary is returned.
Returned(fields, order) ==
    IF \E i \in 1..Len(order) : Raises(fields[order[i]])
    THEN [raised |-> TRUE, fields |-> [k \in DOMAIN fields |-> PyNone]]
    ELSE [raised |-> FALSE, fields |-> fields]

RawTradePayloads ==
    [price : NumberFields, quantity : NumberFields, timestamp : TimestampFields]

\* normalize_trade_from_raw, the parsed fields.
normalize_trade_from_raw(raw) ==
    Returned([price |-> _parse_float(get(raw, "price"), Py(0)),
              quantity |-> _parse_float(get(raw, "quantity"), Py(0)),
              timestamp |-> _parse_datetime_value(get(raw, "timestamp"))],
             <<"price", "quantity", "timestamp">>)

RawSnapshotPayloads ==
    [timestamp : {Absent, JsonText, JsonString(1)},
     bid : NumberFields, ask : NumberFields, mid : NumberFields,
     spread : NumberFields]

\* Mutant of Derived: `if not field and bid and ask`.
DerivedByTruth(field, bid, ask, computed) ==
    IF /\ (field = PyNone \/ field = Py(0))
       /\ bid \notin {PyNone, Py(0)} /\ ask \notin {PyNone, Py(0)}
    THEN Py(computed) ELSE field

\* `if field is None and bid is not None and ask is not None: field = ...`.
Derived(field, bid, ask, computed) ==
    IF field = PyNone /\ bid # PyNone /\ ask # PyNone THEN Py(computed) ELSE field

\* normalize_price_snapshot_from_raw, the parsed and derived fields; utcnow
\* is the reading of the clock.
normalize_price_snapshot_from_raw(raw, utcnow) ==
    LET parsed == _parse_datetime_value(get(raw, "timestamp"))
        bid == _parse_float(get(raw, "bid"), PyNone)
        ask == _parse_float(get(raw, "ask"), PyNone)
        mid == _parse_float(get(raw, "mid"), PyNone)
        spread == _parse_float(get(raw, "spread"), PyNone)
        parses == \A f \in {bid, ask, mid, spread} : ~Raises(f)
    IN  Returned([timestamp |-> IF parsed = PyNone THEN Py(utcnow) ELSE parsed,
                  bid |-> bid,
                  ask |-> ask,
                  mid |-> IF parses
                          THEN Derived(mid, bid, ask, (bid.value + ask.value) \div 2)
                          ELSE mid,
                  spread |-> IF parses
                             THEN Derived(spread, bid, ask, ask.value - bid.value)
                             ELSE spread],
                 <<"timestamp", "bid", "ask", "mid", "spread">>)

NoPayload == [none |-> TRUE]

SchemasInit ==
    /\ schemaPc = "none"
    /\ payload = NoPayload
    /\ record = NoPayload

\* A raw trade is handed to the normalizer.
NormalizeTrade ==
    /\ schemaPc = "none"
    /\ \E raw \in RawTradePayloads :
        /\ payload' = raw
        /\ record' = normalize_trade_from_raw(raw)
    /\ schemaPc' = "trade"
    /\ UNCHANGED outsideSchemas

\* A raw price snapshot is handed to the normalizer.
NormalizePriceSnapshot ==
    /\ schemaPc = "none"
    /\ \E raw \in RawSnapshotPayloads, utcnow \in Timestamps :
        /\ payload' = raw
        /\ record' = normalize_price_snapshot_from_raw(raw, utcnow)
    /\ schemaPc' = "price_snapshot"
    /\ UNCHANGED outsideSchemas

NextSchemas ==
    \/ NormalizeTrade
    \/ NormalizePriceSnapshot

\* ---------------------------------------------------------- specifications
Init ==
    /\ StorageInit /\ DirectInit /\ EngineInit /\ ClientInit /\ CliInit
    /\ CheckpointInit /\ ConcurrentInit /\ SchemasInit

Next ==
    \/ StartIngest
    \/ MarketsFetch \/ TradesFetch \/ PricesFetch
    \/ StoreRaw
    \/ MarketsStore \/ TradesStore \/ PricesStore
    \/ TradesCheckpoint \/ PricesCheckpoint
    \/ Paginate
    \/ Return
    \/ Except

Spec == Init /\ [][Next]_vars

SpecStorage == Init /\ [][NextStorage]_vars

SpecClient == Init /\ [][NextClient]_vars
SpecCli == Init /\ [][NextCli]_vars
\* The command's process keeps running: a step that can be taken is taken
\* (every ingest_trades call returns or raises).
SpecCliFair == SpecCli /\ WF_vars(NextCli)
SpecCheckpoint == Init /\ [][NextCheckpoint]_vars
SpecConcurrent == Init /\ [][NextConcurrent]_vars
SpecSchemas == Init /\ [][NextSchemas]_vars

\* ------------------------------------------------- properties: storage
StoreOps == {"store_markets", "store_trades", "store_price_snapshots"}

TableOf(op) ==
    CASE op = "store_markets" -> markets
      [] op = "store_trades" -> trades
      [] OTHER -> price_snapshots

KeyOf(op) ==
    CASE op = "store_markets" -> MarketKey
      [] op = "store_trades" -> TradeKey
      [] OTHER -> PriceSnapshotKey

RowsWithKey(rows, rec, keycols) ==
    {i \in 1..Len(rows) : KeyMatch(rows[i], rec, keycols)}

\* batch[i] is the last record of the batch that carries its natural key.
LastWrite(batch, i, keycols) ==
    \A j \in (i + 1)..Len(batch) : ~KeyMatch(batch[j], batch[i], keycols)

\* C2: upsert idempotency.  After a successful store_markets, store_trades
\* or store_price_snapshots call, every natural key written by the call has
\* exactly one row, and that row carries the fields of the call's last
\* record with that key (so a second write of a key replaces the first
\* write's non-key fields and adds no row); a call storing one record
\* returns 1.
C2_UpsertIdempotent ==
    (last.op \in StoreOps /\ last.ret # Raised) =>
        /\ \A i \in 1..Len(last.batch) :
              LastWrite(last.batch, i, KeyOf(last.op)) =>
                 LET hit == RowsWithKey(TableOf(last.op), last.batch[i], KeyOf(last.op))
                 IN  /\ Cardinality(hit) = 1
                     /\ \A k \in hit : TableOf(last.op)[k] = last.batch[i]
        /\ (Len(last.batch) = 1 => last.ret = 1)

\* C2 witness: the second of two store_trades calls stored one record whose
\* key the table already held with another timestamp; one row, the second
\* write's fields, and 1 returned.
C2_Witness ==
    /\ storeCalls = 2
    /\ last.op = "store_trades" /\ last.ret = 1 /\ Len(last.batch) = 1
    /\ \E k \in 1..Len(last.before) :
          /\ KeyMatch(last.before[k], last.batch[1], TradeKey)
          /\ last.before[k].timestamp # last.batch[1].timestamp
    /\ Len(trades) = 1 /\ trades[1] = last.batch[1]

\* C3: batch atomicity.  When a record of the batch (or the commit) fails,
\* the call raises and the table is what it was before the call.
C3_BatchAtomic ==
    (last.op \in StoreOps /\ last.failAt # 0) =>
        /\ last.ret = Raised
        /\ TableOf(last.op) = last.before

\* C3 witness: the second record of a two-record store_trades batch failed
\* after the first, a new key, had been added to the session.
C3_Witness ==
    /\ last.op = "store_trades" /\ Len(last.batch) = 2 /\ last.failAt = 2
    /\ RowsWithKey(last.before, last.batch[1], TradeKey) = {}
    /\ last.ret = Raised
    /\ trades = last.before

\* -------------------------------------------------- properties: engine
TradesCheckpointIn(rows) == get_latest_checkpoint(rows, SourceName, "trades")

\* C1: when ingest_trades has stored a page and advanced the checkpoint, the
\* checkpoint of (source, "trades") is the greatest timestamp among that
\* page's normalized records; and a top-level ingest_trades call made with
\* since = None passes the stored checkpoint to fetch_trades as `since`.
C1_CheckpointIsPageMaxAndNextSince ==
    [][ /\ (pc = "checkpoint" /\ call.kind = "trades" /\ pc' = "paginate") =>
              /\ TradesCheckpointIn(ingestion_checkpoints') \in WithTimestamp(normalized)
              /\ \A t \in WithTimestamp(normalized) :
                    t <= TradesCheckpointIn(ingestion_checkpoints')
        /\ (/\ pc = "fetch" /\ call.kind = "trades" /\ pc' # "except"
            /\ Len(frames) = 1 /\ call.since = None) =>
              pageLog'[1].since = TradesCheckpointIn(ingestion_checkpoints)
      ]_vars

\* C1 witness: a second call, ingest_trades with since = None, has fetched
\* with the checkpoint an earlier call left, the greatest instant.
C1_Witness ==
    /\ calls = 2 /\ call.kind = "trades" /\ call.since = None
    /\ pageLog # <<>>
    /\ pageLog[1].since = MaxTs
    /\ TradesCheckpointIn(ingestion_checkpoints) = MaxTs

\* C4: an empty page makes the operation return 0 at once; the raw archive,
\* the normalized tables and the checkpoints are left as they are, and the
\* archive, store and checkpoint steps are only ever taken for a page that
\* has records.
C4_EmptyPageShortCircuit ==
    /\ [](pc \in {"archive", "store", "checkpoint", "paginate"} => page.n > 0)
    /\ [][ /\ (pc = "fetch" /\ pc' # "except" /\ page'.n = 0) =>
                 (pc' = "return" /\ retval' = 0 /\ UNCHANGED storageVars)
           /\ (pc = "return" /\ page.n = 0) =>
                 (pc' \in {"return", "done"} /\ UNCHANGED storageVars)
         ]_vars

\* C4 witness: ingest_trades with raw archiving on got an empty first page
\* and returned 0, nothing archived, stored or checkpointed.
C4_Witness ==
    /\ calls = 1 /\ pc = "done" /\ result = 0
    /\ call.kind = "trades" /\ call.store_raw
    /\ Len(pageLog) = 1 /\ pageLog[1].n = 0
    /\ raw_api_responses = <<>> /\ trades = <<>> /\ ingestion_checkpoints = <<>>

\* The page sequences of the pagination claim, as far as the call has seen
\* them: a page that is followed by another (more) carries a next cursor and
\* is full, the last page carries no cursor or is short.
PageFull(e) == call.limit = NoLimit \/ e.n = call.limit
PageShort(e) == call.limit # NoLimit /\ e.n < call.limit

PaginationFamily ==
    \A i \in 1..Len(pageLog) :
        IF pageLog[i].more
        THEN pageLog[i].nextCursor # None /\ PageFull(pageLog[i])
        ELSE pageLog[i].nextCursor = None \/ PageShort(pageLog[i])

NonLastPagesNonEmpty ==
    \A i \in 1..Len(pageLog) : pageLog[i].more => pageLog[i].n > 0

RECURSIVE SumStored(_, _)
SumStored(log, n) == IF n = 0 THEN 0 ELSE SumStored(log, n - 1) + log[n].stored

\* Every page of the sequence was fetched exactly once, in order: no fetch
\* went beyond the last page, each fetch used the cursor of the page before,
\* and once the call has returned the last page has been reached and the
\* result is the sum of the counts the store operation returned.
FetchedEachPageOnce ==
    /\ \A i \in 1..(Len(pageLog) - 1) : pageLog[i].more
    /\ \A i \in 1..Len(pageLog) :
          pageLog[i].cursor = IF i = 1 THEN None ELSE pageLog[i - 1].nextCursor
    /\ \A i, j \in 1..Len(pageLog) : pageLog[i].cursor = pageLog[j].cursor => i = j
    /\ pc = "done" =>
          /\ ~pageLog[Len(pageLog)].more
          /\ result = SumStored(pageLog, Len(pageLog))

Paginated == call.kind \in {"markets", "trades"} /\ pc # "idle"

\* C5 as stated: for every page sequence in which each page before the last
\* carries a next cursor and is full and the last carries no cursor or is
\* short, ingest_markets / ingest_trades fetches each page exactly once and
\* returns the sum of the stored counts.
C5_Original_PaginationFetchesAll ==
    (Paginated /\ PaginationFamily) => FetchedEachPageOnce

\* C5 amended: the same, for the sequences whose pages before the last are
\* also non-empty (an empty page ends the operation whatever its cursor).
C5_PaginationFetchesAllNonEmpty ==
    (Paginated /\ PaginationFamily /\ NonLastPagesNonEmpty) => FetchedEachPageOnce

\* C5 witness: ingest_trades with a limit fetched a full first page with a
\* cursor, then a last page, and returned the sum of both stored counts.
C5_Witness ==
    /\ pc = "done" /\ call.kind = "trades" /\ call.limit = MaxPageLen
    /\ PaginationFamily /\ NonLastPagesNonEmpty
    /\ Len(pageLog) = 2
    /\ pageLog[1].stored = MaxPageLen /\ pageLog[2].stored = 1
    /\ result = MaxPageLen + 1


\* -------------------------------------------------- properties: client
Finished == cpc \in {"returned", "raised"}
AllTransient(o) == \A i \in 1..Len(o) : o[i] = "transient"

\* C6: a request whose first two network calls raised a transient transport
\* error ends only after a third call, and when that call succeeds the
\* request returns its result: exactly 3 network calls.
C6_RetryThenSuccess ==
    (/\ Len(outcomes) >= 2
     /\ outcomes[1] = "transient" /\ outcomes[2] = "transient") =>
        /\ Finished => Len(outcomes) = 3
        /\ (Len(outcomes) = 3 /\ outcomes[3] = "ok") => cpc = "returned"
        /\ cpc = "returned" => outcomes[Len(outcomes)] = "ok"

\* C6 witness: transient, transient, ok, and the request has returned.
C6_Witness ==
    cpc = "returned" /\ outcomes = <<"transient", "transient", "ok">>

\* C7: a request all of whose network calls raise a transient transport
\* error makes 3 attempts and raises: no 4th attempt, no value returned.
C7_RetryExhaustion ==
    (outcomes # <<>> /\ AllTransient(outcomes)) =>
        /\ Len(outcomes) <= 3
        /\ cpc # "returned"
        /\ Finished <=> Len(outcomes) = 3

\* C7 witness: three transient errors and the request has raised.
C7_Witness ==
    cpc = "raised" /\ outcomes = <<"transient", "transient", "transient">>

\* C8: two consecutive network calls of a client, whether first attempts
\* or retries, start at least one interval (1 / rate) apart, and the first
\* attempt of a new client does not sleep in the rate limiter.
C8_CallStartsSpaced ==
    /\ starts[1] # None => starts[2] - starts[1] >= _min_request_interval
    /\ slept # <<>> => slept[1] = 0

\* C8 witness: a retry attempt had to sleep in the rate limiter after a
\* network call that failed at once, and its network call started exactly
\* one interval after the previous one.
C8_Witness ==
    /\ Len(slept) >= 2 /\ slept[Len(slept)] > 0
    /\ Len(outcomes) >= 2
    /\ starts[1] # None
    /\ starts[2] - starts[1] = _min_request_interval

\* ----------------------------------------------------- properties: CLI
\* The command line is one the commands must reject.
InvalidInput(a) ==
    \/ a.command = "trades" /\ a.since.given /\ ~a.since.valid
    \/ /\ a.command = "backfill"
       /\ \/ ~a.start.valid
          \/ ~a.end.valid
          \/ a.start.instant >= a.end.instant

\* C9: a command given invalid input (trades with an unparsable --since,
\* backfill with an unparsable date or with start >= end) exits with code 1
\* having made no engine (network) call and having done nothing on the
\* database.
C9_InvalidInputRejectedBeforeWork ==
    (cliPc = "exit" /\ InvalidInput(argv)) =>
        /\ exit_code = 1
        /\ engineCalls = <<>>
        /\ db = <<>>

\* A trades backfill between two midnights, start before end.
MidnightBackfill ==
    /\ argv.command = "backfill" /\ argv.data_type = "trades"
    /\ argv.start.valid /\ argv.end.valid
    /\ argv.start.instant \in Midnights /\ argv.end.instant \in Midnights
    /\ argv.start.microsecond = 0 /\ argv.end.microsecond = 0
    /\ argv.start.instant < argv.end.instant

BackfillDays == (argv.end.instant - argv.start.instant) \div Day

RECURSIVE SumCounts(_)
SumCounts(w) == IF w = <<>> THEN 0 ELSE w[1].count + SumCounts(Tail(w))

\* The part of C10 that does not depend on where a window ends: never more
\* than D windows, window i starts at 00:00 of day i and is one ingest_trades
\* call with since = its start; a backfill that completes has made exactly D
\* calls and reports the sum of their counts.
WindowsPerDay ==
    /\ Len(windows) <= BackfillDays
    /\ Len(engineCalls) = Len(windows)
    /\ \A i \in 1..Len(windows) :
          /\ windows[i].start = argv.start.instant + (i - 1) * Day
          /\ engineCalls[i].kind = "trades"
          /\ engineCalls[i].since = windows[i].start
    /\ (cliPc = "exit" /\ exit_code = 0) =>
          /\ Len(windows) = BackfillDays
          /\ echoed = SumCounts(windows)

\* C10 as stated: ..., every window but the last ends at 23:59:59 of its
\* day and the last window ends at `end`.
C10_Original_LastWindowEndsAtEnd ==
    MidnightBackfill =>
        /\ WindowsPerDay
        /\ \A i \in 1..Len(windows) :
              windows[i].end = IF i = BackfillDays
                               THEN argv.end.instant
                               ELSE windows[i].start + LastSecond

\* C10 amended: a trades backfill whose start and end are midnights D days
\* apart performs exactly D ingest_trades calls, one per day-window; window
\* i starts at 00:00 of day i, every window, the last included, ends at
\* 23:59:59 of its day, and the reported grand total is the sum of the
\* counts returned for the windows.
C10_BackfillDaySplitting ==
    MidnightBackfill =>
        /\ WindowsPerDay
        /\ \A i \in 1..Len(windows) : windows[i].end = windows[i].start + LastSecond

\* C10 witness: a backfill over two days has completed with two windows and
\* a grand total that is not zero.
C10_Witness ==
    /\ MidnightBackfill /\ BackfillDays = 2
    /\ cliPc = "exit" /\ exit_code = 0
    /\ Len(windows) = 2
    /\ echoed > 0

\* C11: whenever a command exits after the adapter has been constructed,
\* adapter.close() has been called.
C11_AdapterClosedOnExit ==
    (cliPc = "exit" /\ adapter # "none") => adapter = "closed"

\* The command has made ingestion calls; one of them raised.
SomeCallRaised == \E i \in 1..Len(engineCalls) : engineCalls[i].count = Raised

RECURSIVE SumCalls(_)
SumCalls(c) == IF c = <<>> THEN 0 ELSE c[1].count + SumCalls(Tail(c))

\* C12: a command that has exited after making ingestion calls: if one of
\* the calls raised, the exit code is 1 and the final success message was
\* not printed; if none raised, the success message was printed with the
\* total of the returned counts and the exit code is 0.
C12_FailureReporting ==
    (cliPc = "exit" /\ engineCalls # <<>>) =>
        IF SomeCallRaised
        THEN exit_code = 1 /\ echoed = None
        ELSE exit_code = 0 /\ echoed = SumCalls(engineCalls)

\* C12 witness: a backfill whose first window was ingested and whose second
\* window raised has exited.
C12_Witness ==
    /\ cliPc = "exit" /\ argv.command = "backfill"
    /\ Len(engineCalls) = 2
    /\ engineCalls[1].count = MaxCount /\ engineCalls[2].count = Raised
    /\ exit_code = 1

\* ------------------------------------------- properties: engine, continued
RECURSIVE SumFetched(_, _)
SumFetched(log, n) == IF n = 0 THEN 0 ELSE SumFetched(log, n - 1) + log[n].n

\* C13: during an ingest_markets call with limit = L, the market records
\* fetched so far over all its pages, and the records stored, are at most L.
C13_LimitIsCap ==
    (call.kind = "markets" /\ call.limit # NoLimit) =>
        /\ SumFetched(pageLog, Len(pageLog)) <= call.limit
        /\ pc = "done" => result <= call.limit

\* The page ingest_trades is working on has records and none of them has a
\* timestamp.
PageWithoutTimestamps ==
    /\ call.kind = "trades" /\ pageLog # <<>>
    /\ pageLog[Len(pageLog)].n > 0
    /\ pageLog[Len(pageLog)].timestamps = {}

\* C14: when ingest_trades stores and checkpoints a non-empty page none of
\* whose records has a timestamp, and neither the database nor the network
\* fails, no step raises and the checkpoints are left as they are.
C14_CheckpointAdvanceConditional ==
    [][ (/\ pc \in {"store", "checkpoint"}
         /\ PageWithoutTimestamps
         /\ ~fault') =>
            /\ pc' # "except"
            /\ UNCHANGED ingestion_checkpoints
      ]_vars

\* The pages of the current call came in non-decreasing timestamp order.
PagesInOrder ==
    \A i \in 1..Len(pageLog) : \A j \in (i + 1)..Len(pageLog) :
        \A t \in pageLog[i].timestamps : \A u \in pageLog[j].timestamps : t <= u

\* C15: while one ingest_trades call works on its second or a later page,
\* and the pages came in non-decreasing timestamp order, no step lowers the
\* checkpoint of (source, "trades").
C15_CheckpointMonotonicWithinCall ==
    [][ (/\ call.kind = "trades" /\ pc # "idle"
         /\ Len(pageLog) >= 2
         /\ PagesInOrder) =>
            TradesCheckpointIn(ingestion_checkpoints') >=
                TradesCheckpointIn(ingestion_checkpoints)
      ]_vars

\* C15 witness: the first page held timestamps 1, the second timestamps 2,
\* and the second page's checkpoint has been written.
C15_Witness ==
    /\ call.kind = "trades" /\ pc = "paginate"
    /\ Len(pageLog) = 2
    /\ pageLog[1].timestamps = {1} /\ pageLog[2].timestamps = {2}
    /\ TradesCheckpointIn(ingestion_checkpoints) = 2

\* ------------------------------------------ properties: storage, continued
UniqueKeys(rows, keycols) ==
    \A i \in 1..Len(rows) : \A j \in 1..Len(rows) :
        KeyMatch(rows[i], rows[j], keycols) => i = j

\* C16: after any sequence of store_markets, store_trades and
\* store_price_snapshots calls, each table holds at most one row per natural
\* key.
C16_NaturalKeyUnique ==
    /\ UniqueKeys(markets, MarketKey)
    /\ UniqueKeys(trades, TradeKey)
    /\ UniqueKeys(price_snapshots, PriceSnapshotKey)

\* C16 witness: a store_markets call has stored a batch that carries the
\* same key twice with different questions; the table has one row.
C16_Witness ==
    /\ last.op = "store_markets" /\ last.ret = 2
    /\ KeyMatch(last.batch[1], last.batch[2], MarketKey)
    /\ last.batch[1] # last.batch[2]
    /\ last.before = <<>>
    /\ Len(markets) = 1

\* C17: a store_markets, store_trades or store_price_snapshots call that
\* succeeds returns the length of its batch, updates counted like inserts;
\* for the empty batch that is 0.
C17_ReturnedCount ==
    (last.op \in StoreOps /\ last.ret # Raised) => last.ret = Len(last.batch)

\* C17 witness: a store_price_snapshots call of two records, the first with
\* a key the table held and the second with a new key, has returned 2.
C17_Witness ==
    /\ last.op = "store_price_snapshots" /\ last.ret = 2
    /\ RowsWithKey(last.before, last.batch[1], PriceSnapshotKey) # {}
    /\ RowsWithKey(last.before, last.batch[2], PriceSnapshotKey) = {}
    /\ Len(price_snapshots) = Len(last.before) + 1

\* C18: after any sequence of update_checkpoint calls there is at most one
\* checkpoint row per (source, data_type); get_latest_checkpoint returns the
\* timestamp of the pair's most recent update, no value if it was never
\* updated; an update of one pair leaves every other pair's value as it was.
C18_CheckpointStore ==
    /\ \A i \in 1..Len(ingestion_checkpoints) : \A j \in 1..Len(ingestion_checkpoints) :
          CheckpointMatch(ingestion_checkpoints[i], ingestion_checkpoints[j].source,
                          ingestion_checkpoints[j].data_type) => i = j
    /\ \A pr \in Pairs :
          get_latest_checkpoint(ingestion_checkpoints, pr[1], pr[2]) = written[pr]
    /\ ckLast.op = "get_latest_checkpoint" =>
          ckLast.ret = written[<<ckLast.source, ckLast.data_type>>]
    /\ ckLast.op = "update_checkpoint" =>
          \A pr \in Pairs \ {<<ckLast.source, ckLast.data_type>>} :
              get_latest_checkpoint(ingestion_checkpoints, pr[1], pr[2]) =
                  get_latest_checkpoint(ckLast.before, pr[1], pr[2])

\* C18 witness: two pairs have a checkpoint, and the last call moved the
\* second pair's checkpoint from one timestamp to another.
C18_Witness ==
    /\ ckLast.op = "update_checkpoint" /\ ckLast.ret # Raised
    /\ Len(ckLast.before) = 2 /\ Len(ingestion_checkpoints) = 2
    /\ get_latest_checkpoint(ckLast.before, ckLast.source, ckLast.data_type)
          \notin {None, ckLast.timestamp}
    /\ written[<<ckLast.source, ckLast.data_type>>] = ckLast.timestamp

\* ------------------------------------------- properties: client, continued
\* C19: a request whose network call returns a non-2xx status ends with
\* that call: the step raises to the caller, adds one to the failure counter
\* tagged with the status, and leaves the success counter and the failure
\* counters of other tags alone; so a request whose first call returns a
\* non-2xx status makes exactly one attempt.
C19_HttpErrorNotRetried ==
    /\ []((outcomes # <<>> /\ outcomes[1] \in HttpErrors) =>
            (Len(outcomes) = 1 /\ attempt = 1 /\ cpc = "raised"))
    /\ [][ (cpc = "send" /\ outcomes' # outcomes
            /\ outcomes'[Len(outcomes')] \in HttpErrors) =>
              LET key == StatusKey(outcomes'[Len(outcomes')])
              IN  /\ cpc' = "raised"
                  /\ counters'[key] = counters[key] + 1
                  /\ \A k \in CounterKeys \ {key, DurationErrorsKey} :
                        counters'[k] = counters[k]
         ]_vars

\* C19 witness: the first call of a request returned status 500 and the
\* request has raised after one attempt, the counter of status 500 at 1.
C19_Witness ==
    /\ cpc = "raised" /\ outcomes = <<"http_500">> /\ attempt = 1
    /\ counters[StatusKey("http_500")] = 1
    /\ counters[SuccessKey] = 0

\* ------------------------------------------- properties: engine, continued
\* C20: during an ingest_markets call, whatever its pages and whether it
\* returns or raises, get_latest_checkpoint and update_checkpoint are never
\* called and no step changes a checkpoint row.
C20_MarketsLeaveCheckpoints ==
    /\ [](call.kind = "markets" => checkpointCalls = [get |-> 0, update |-> 0])
    /\ [][ (call.kind = "markets" /\ pc \notin {"idle", "done", "raised"}) =>
              UNCHANGED ingestion_checkpoints ]_vars

\* C20 witness: an ingest_markets call has stored two pages and returned,
\* while a checkpoint written by an earlier ingest_trades call is in place.
C20_Witness ==
    /\ call.kind = "markets" /\ pc = "done"
    /\ Len(pageLog) = 2 /\ result > 0
    /\ TradesCheckpointIn(ingestion_checkpoints) # None

\* C21: every ingest_trades invocation (frame) that reaches fetch_trades:
\* called with an explicit `since`, it does not read the checkpoint and
\* passes exactly that `since`; called with since = None, it reads the
\* checkpoint of (source, "trades") once and passes it as `since` if one
\* exists, no lower bound otherwise.
C21_LowerBoundSelection ==
    [][ (pc = "fetch" /\ call.kind = "trades" /\ pc' # "except") =>
            LET passed == pageLog'[Len(pageLog')].since
                stored == TradesCheckpointIn(ingestion_checkpoints)
            IN  IF Top.since # None
                THEN /\ checkpointCalls' = checkpointCalls
                     /\ passed = Top.since
                ELSE /\ checkpointCalls'.get = checkpointCalls.get + 1
                     /\ checkpointCalls'.update = checkpointCalls.update
                     /\ passed = IF stored # None THEN stored ELSE None
      ]_vars

\* C21 witness: ingest_trades called with an explicit `since` while a later
\* checkpoint is stored has fetched with its own `since`, the checkpoint
\* unread.
C21_Witness ==
    /\ calls = 2 /\ call.kind = "trades" /\ call.since = 1
    /\ TradesCheckpointIn(ingestion_checkpoints) = MaxTs
    /\ Len(pageLog) = 1 /\ pageLog[1].since = 1
    /\ checkpointCalls.get = 0


\* C22: an ingest_price_snapshots call fetches once and never recurses: it
\* has one frame, at most one fetch is logged, no step after the fetch leads
\* to another fetch or to the pagination step, and a call that has returned
\* has fetched exactly once, whatever cursor the response carried.
C22_PricesNeverPaginate ==
    /\ [](call.kind = "price_snapshots" =>
            /\ Len(frames) <= 1
            /\ Len(pageLog) <= 1
            /\ pc # "paginate"
            /\ pc = "done" => Len(pageLog) = 1)
    /\ [][ (call.kind = "price_snapshots" /\ pc \notin {"idle", "done", "raised"}) =>
              pc' # "fetch" ]_vars

\* C22 witness: ingest_price_snapshots got a page with records and a next
\* cursor behind which the source has a further page, and has returned
\* after that one fetch.
C22_Witness ==
    /\ call.kind = "price_snapshots" /\ pc = "done" /\ result > 0
    /\ Len(pageLog) = 1
    /\ pageLog[1].nextCursor # None /\ pageLog[1].more

\* --------------------------------------------------- properties: CLI, continued
\* C23: in a trades backfill from `start` to `end`, no ingest_trades call
\* stores a trade later than the end of its day-window, hence none later
\* than `end`.
C23_BackfillWithinRange ==
    (/\ argv.command = "backfill" /\ argv.data_type = "trades"
     /\ argv.start.valid /\ argv.end.valid) =>
        \A i \in 1..Len(engineCalls) :
            engineCalls[i].latest # None =>
                /\ engineCalls[i].latest <= windows[i].end
                /\ engineCalls[i].latest <= argv.end.instant

\* ------------------------------------------- properties: concurrent runs
\* Every record of the batch has its row in the table, and the last record
\* of each key is that row.
BatchPresent(rows, batch) ==
    \A i \in 1..Len(batch) :
        /\ RowsWithKey(rows, batch[i], TradeKey) # {}
        /\ LastWrite(batch, i, TradeKey) =>
              \A k \in RowsWithKey(rows, batch[i], TradeKey) : rows[k] = batch[i]

\* C24: with concurrent runs, the trades table that any session reads
\* changes only at the commit of a run's session, and then holds that
\* run's whole batch; the statements of an open session and a rollback
\* leave it as it is.
C24_NoPartiallyVisibleBatch ==
    [][ \A r \in Runs :
            /\ (/\ runs'[r] # runs[r]
                /\ runs[r].pc = "session" /\ runs'[r].pc \in {"session", "failed"}) =>
                    trades' = trades
            /\ (runs[r].pc = "session" /\ runs'[r].pc = "checkpoint") =>
                    BatchPresent(trades', runs[r].batch)
            /\ (trades' # trades) =>
                    \E q \in Runs : runs[q].pc = "session" /\ runs'[q].pc = "checkpoint"
      ]_vars

\* C24 witness: run 1 has upserted the first of its two records, a new key,
\* in its open session; run 2 has committed its batch meanwhile; the table
\* holds run 2's rows and nothing of run 1's.
C24_Witness ==
    /\ runs[1].pc = "session" /\ Len(runs[1].batch) = 2 /\ runs[1].done = 1
    /\ runs[1].inserts # {}
    /\ runs[2].pc = "checkpoint"
    /\ BatchPresent(trades, runs[2].batch)
    /\ RowsWithKey(trades, runs[1].batch[1], TradeKey) = {}

\* C25: a run's update_checkpoint sets the checkpoint of (source, "trades")
\* to the latest timestamp of its own page, whatever another run has
\* written before; so an interleaving of two runs ends with a checkpoint
\* older than one a run had written.
C25_CheckpointOverwrittenAcrossRuns ==
    [][ \A r \in Runs :
            (runs[r].pc = "checkpoint" /\ runs'[r].pc = "idle") =>
                TradesCheckpointIn(ingestion_checkpoints') =
                    LatestTimestamp(runs[r].batch)
      ]_vars

\* C25 witness: both runs have stored and checkpointed their page and the
\* stored checkpoint is older than the one a run had written.
C25_Witness ==
    /\ \A r \in Runs : runs[r].pc = "idle" /\ runs[r].checkpointed # None
    /\ \E r \in Runs :
          TradesCheckpointIn(ingestion_checkpoints) < runs[r].checkpointed

\* ------------------------------------------- properties: engine, continued
\* C26: the continuation step of ingest_markets / ingest_trades is reached
\* only after a non-empty page has been stored; it fetches a further page
\* if and only if the page carried a next cursor and (limit is None or the
\* page held exactly `limit` records), with that cursor and the same limit
\* and store_raw; otherwise the frame returns.  Every page after the first
\* was fetched with the cursor of a page before it that met the condition.
C26_ContinuationRule ==
    /\ [](pc = "paginate" =>
            /\ call.kind \in {"markets", "trades"}
            /\ page.n > 0
            /\ pageLog[Len(pageLog)].stored # None)
    /\ [](\A i \in 2..Len(pageLog) :
            /\ pageLog[i].cursor = pageLog[i - 1].nextCursor
            /\ pageLog[i - 1].nextCursor # None
            /\ (call.limit = NoLimit \/ pageLog[i - 1].n = call.limit))
    /\ [][ pc = "paginate" =>
            /\ (pc' = "fetch") <=>
                  /\ page.nextCursor # None
                  /\ (call.limit = NoLimit \/ page.n = call.limit)
            /\ pc' = "fetch" =>
                  /\ Len(frames') = Len(frames) + 1
                  /\ frames'[Len(frames')].cursor = page.nextCursor
                  /\ call'.limit = call.limit
                  /\ call'.store_raw = call.store_raw
            /\ pc' # "fetch" => (pc' = "return" /\ frames' = frames)
         ]_vars

\* C26 witness: with limit 2, a full first page with a cursor was followed
\* by the fetch of a second page; that one, short but carrying a cursor,
\* was not followed by a third fetch, and the call has returned.
C26_Witness ==
    /\ call.kind = "trades" /\ call.limit = MaxPageLen /\ pc = "done"
    /\ Len(pageLog) = 2
    /\ pageLog[1].n = MaxPageLen /\ pageLog[1].nextCursor # None
    /\ pageLog[2].n = 1 /\ pageLog[2].nextCursor # None
    /\ pageLog[2].cursor = pageLog[1].nextCursor

\* C27: in an ingest_trades call the steps of a page come in the order
\* fetch, store_raw (when enabled), store_trades, update_checkpoint: the
\* archive is written only at the archive step, which follows the fetch
\* when store_raw is set; the trades table only at the store step, which
\* follows the archive (or the fetch); the checkpoint only at the checkpoint
\* step, which follows the store; and a further page is fetched only from
\* the continuation step, which follows the checkpoint step.
C27_PerPageStepOrder ==
    [][ (call.kind = "trades" /\ pc \notin {"idle", "done", "raised"}) =>
            /\ raw_api_responses' # raw_api_responses =>
                  (pc = "archive" /\ call.store_raw)
            /\ trades' # trades => pc = "store"
            /\ ingestion_checkpoints' # ingestion_checkpoints => pc = "checkpoint"
            /\ Len(pageLog') > Len(pageLog) => pc = "fetch"
            /\ (pc = "fetch" /\ pc' \notin {"except", "return"}) =>
                  pc' = IF call.store_raw THEN "archive" ELSE "store"
            /\ (pc = "archive" /\ pc' # "except") => pc' = "store"
            /\ (pc = "store" /\ pc' # "except") => pc' = "checkpoint"
            /\ (pc = "checkpoint" /\ pc' # "except") =>
                  (pc' = "paginate" /\ checkpointCalls'.update = checkpointCalls.update + 1)
            /\ pc' = "fetch" => pc = "paginate"
      ]_vars

\* C27 witness: ingest_trades with raw archiving has archived, stored and
\* checkpointed its first page and fetched its second.
C27_Witness ==
    /\ call.kind = "trades" /\ call.store_raw /\ pc = "archive"
    /\ calls = 1 /\ Len(pageLog) = 2
    /\ Len(raw_api_responses) = 1
    /\ pageLog[1].stored # None
    /\ TradesCheckpointIn(ingestion_checkpoints) # None
    /\ checkpointCalls.update = 1

CheckpointIn(rows, data_type) == get_latest_checkpoint(rows, SourceName, data_type)

StoredTable(data_type) == IF data_type = "trades" THEN trades ELSE price_snapshots
StoredKey(data_type) == IF data_type = "trades" THEN TradeKey ELSE PriceSnapshotKey

SinceHonoured ==
    \A i \in 1..Len(pageLog) : \A t \in pageLog[i].timestamps : t >= pageLog[i].since

AllTimestamps == UNION {pageLog[i].timestamps : i \in 1..Len(pageLog)}

\* C29: over any sequence of ingest_trades calls in which nothing fails,
\* the adapter honours `since` and pages come in timestamp order, no step
\* moves the checkpoint of (source, "trades") backwards, and when a call has
\* returned the checkpoint is not older than any trade the call ingested.
C29_CheckpointIsLatestIngested ==
    /\ []((/\ call.kind = "trades" /\ pc = "done"
           /\ PagesInOrder /\ SinceHonoured) =>
             \A t \in AllTimestamps : TradesCheckpointIn(ingestion_checkpoints) >= t)
    /\ [][ (/\ call.kind = "trades" /\ pc \notin {"idle", "done", "raised"}
            /\ PagesInOrder /\ SinceHonoured /\ ~fault') =>
              TradesCheckpointIn(ingestion_checkpoints') >=
                  TradesCheckpointIn(ingestion_checkpoints)
         ]_vars

\* C30: all the pages of one top-level ingest_trades call are requested
\* with the `since` of its first page.
C30_StableLowerBound ==
    call.kind = "trades" =>
        \A i \in 1..Len(pageLog) : pageLog[i].since = pageLog[1].since

\* C31: when the adapter or the storage raises while page k of an ingest_*
\* call is processed, the exception reaches the caller of the top-level
\* call and no count is returned, the call has added exactly 1 to the
\* `ingestion.<kind>.errors` counter tagged with the source, whatever k is,
\* and the handling leaves every table, the checkpoints included, as
\* committed.
C31_EngineFailureHandling ==
    /\ [](pc = "raised" =>
            /\ result = Raised
            /\ ingestion_errors[HandlerErrorsKey(call.kind)] = 1)
    /\ [][ pc = "except" =>
            /\ pc' \in {"except", "raised"}
            /\ UNCHANGED storageVars ]_vars

\* C32: the raw archive changes only at the archive step of a call with
\* store_raw set, for a non-empty page, by one record appended to the
\* records it held, which stay as they were; that step comes between the
\* fetch of the page and its normalized store, and unless it raises it
\* appends; a call with store_raw unset goes from the fetch to the store
\* and appends nothing.
C32_RawArchiveAccounting ==
    [][ /\ \/ raw_api_responses' = raw_api_responses
           \/ /\ pc = "archive" /\ call.store_raw /\ page.n > 0
              /\ Len(raw_api_responses') = Len(raw_api_responses) + 1
              /\ SubSeq(raw_api_responses', 1, Len(raw_api_responses)) = raw_api_responses
              /\ raw_api_responses'[Len(raw_api_responses')].records = page.n
              /\ pc' = "store"
        /\ (pc = "archive" /\ pc' # "except") =>
              Len(raw_api_responses') = Len(raw_api_responses) + 1
        /\ (pc = "fetch" /\ pc' \notin {"except", "return"}) =>
              pc' = IF call.store_raw THEN "archive" ELSE "store"
        /\ (pc' = "store" /\ pc # "store") =>
              pc = IF call.store_raw THEN "archive" ELSE "fetch"
      ]_vars

\* C32 witness: a call with store_raw set has archived its two pages, and a
\* second call with store_raw unset has stored a page and returned, the
\* archive still holding those two records.
C32_Witness ==
    /\ calls = 2 /\ ~call.store_raw /\ pc = "done" /\ result > 0
    /\ Len(raw_api_responses) = 2
    /\ raw_api_responses[1].cursor = None /\ raw_api_responses[2].cursor # None

\* C33: an ingest_price_snapshots call never reads the checkpoint, and
\* when it has stored a non-empty page and neither the database nor the
\* network fails, its checkpoint step does not raise and sets the
\* checkpoint of (source, "price_snapshots") to the greatest timestamp of
\* the page.
C33_PricesCheckpoint ==
    /\ [](call.kind = "price_snapshots" => checkpointCalls.get = 0)
    /\ [][ (pc = "checkpoint" /\ call.kind = "price_snapshots" /\ ~fault') =>
              /\ pc' = "return"
              /\ CheckpointIn(ingestion_checkpoints', "price_snapshots")
                    \in WithTimestamp(normalized)
              /\ \A t \in WithTimestamp(normalized) :
                    t <= CheckpointIn(ingestion_checkpoints', "price_snapshots")
         ]_vars

\* C34: when the block wrapped by log_duration("api.request", ...) raises,
\* the api.request.errors counter of the context goes up by exactly one, no
\* duration gauge is recorded and the failure reaches the caller of the
\* block (tenacity retries it or the request raises); when the block
\* completes, the duration gauge is set to the elapsed time and the errors
\* counter is unchanged.
C34_ScopedDuration ==
    [][ cpc = "send" =>
          LET outcome == outcomes'[Len(outcomes')]
          IN  IF cpc' = "returned"
              THEN /\ outcome = "ok"
                   /\ DurationGaugeKey \in DOMAIN gauges'
                   /\ gauges'[DurationGaugeKey] = now' - now
                   /\ counters'[DurationErrorsKey] = counters[DurationErrorsKey]
              ELSE /\ outcome # "ok"
                   /\ cpc' \in {"raised", "backoff"}
                   /\ counters'[DurationErrorsKey] = counters[DurationErrorsKey] + 1
                   /\ gauges' = gauges
      ]_vars

\* A request whose first attempt timed out and whose second returned after
\* one second: one error counted by log_duration, the gauge reads 1.
C34_Witness ==
    /\ cpc = "returned"
    /\ outcomes = <<"transient", "ok">>
    /\ counters[DurationErrorsKey] = 1
    /\ DurationGaugeKey \in DOMAIN gauges
    /\ gauges[DurationGaugeKey] = 1

\* C35: every network attempt increments exactly one of the counters
\* api.requests.success and api.requests.error (whatever the tags), the
\* success counter if and only if the attempt returns a value to the caller.
ErrorCounterKeys == CounterKeys \ {SuccessKey, DurationErrorsKey}
C35_OneOutcomePerAttempt ==
    [][ cpc = "send" =>
          LET success == counters'[SuccessKey] - counters[SuccessKey]
              errors == {k \in ErrorCounterKeys : counters'[k] # counters[k]}
          IN  /\ success \in {0, 1}
              /\ \A k \in errors : counters'[k] = counters[k] + 1
              /\ (success = 1) = (errors = {})
              /\ success = 0 => Cardinality(errors) = 1
              /\ (success = 1) = (cpc' = "returned")
      ]_vars

\* ------------------------------------------------- properties: schemas
\* A field that holds a number or the text of one.
Numeric(field) == field.type = "number" \/ (field.type = "string" /\ field.parses)

TradesBackfill ==
    /\ argv.command = "backfill" /\ argv.data_type = "trades"
    /\ argv.start.valid /\ argv.end.valid
    /\ Before(argv.start.instant, argv.start.microsecond,
              argv.end.instant, argv.end.microsecond)

\* The number of calendar days that [start, end] touches.
DaysTouched ==
    (StartOfDay(argv.end.instant) - StartOfDay(argv.start.instant)) \div Day + 1

\* Every iteration that completes moves the cursor to a later instant.
CursorIncreases ==
    [][ (cliPc = "loop" /\ cliPc' = "loop") =>
            Before(current, microsecond, current', microsecond') ]_vars

\* After the first iteration the cursor is a midnight.
CursorAtMidnight ==
    [](( TradesBackfill /\ cliPc = "loop" /\ Len(windows) >= 1) =>
          (current % Day = 0 /\ microsecond = 0))

\* No more ingest_trades calls than days touched.
CallsWithinDays ==
    [](TradesBackfill => Len(engineCalls) <= DaysTouched)

\* The loop ends.
LoopTerminates == (cliPc = "loop") ~> (cliPc = "exit")

\* C38: for every start < end, with any time of day in either, the trades
\* backfill loop terminates when every ingest_trades call returns; its
\* cursor strictly increases on every iteration and is a midnight after the
\* first iteration, and there are at most as many ingest_trades calls as
\* [start, end] touches calendar days.
C38_BackfillLoopTermination ==
    /\ CursorIncreases
    /\ CursorAtMidnight
    /\ CallsWithinDays
    /\ LoopTerminates

====
